---- MODULE Spec2Model ----
(***************************************************************************)
(* Model of the section extractors of the PDF document extractor:          *)
(* RegexExtractor.extract, LLMExtractor.extract with its fallback, and the *)
(* post-processing chains of the seven section extractors.                 *)
(*                                                                         *)
(* Python values are tagged tuples: None, booleans, strings, integers,     *)
(* dictionaries (functions over a set of key strings) and lists.  A raised *)
(* exception is the value Raised.                                          *)
(***************************************************************************)
EXTENDS Integers, Sequences, FiniteSets, TLC

VARIABLES section, text, llm, keyOrder, pc, raw, out, emitted, calls,
          pdf_exists, extracted_text, sections, identified_sections,
          sections_to_process, results, run, saved, exit_code

\* the state of one run of main: the arguments and locals of process_document
docvars == <<pdf_exists, extracted_text, sections, identified_sections,
             sections_to_process, results, run, saved, exit_code>>

\* calls is the log of the calls made in a run that is followed call by
\* call; the other runs leave it empty
vars == <<section, text, llm, keyOrder, pc, raw, out, emitted, calls, docvars>>

-----------------------------------------------------------------------------
(* Python values *)

None == <<"none">>
PyBool(b) == <<"bool", b>>
PyStr(s) == <<"str", s>>
PyInt(n) == <<"int", n>>
PyDict(f) == <<"dict", f>>
PyList(q) == <<"list", q>>
Raised == <<"raise">>

PyTrue == PyBool(TRUE)
PyFalse == PyBool(FALSE)

IsStr(v) == v[1] = "str"
IsBool(v) == v[1] = "bool"
IsDict(v) == v[1] = "dict"
IsList(v) == v[1] = "list"

EmptyMap == [k \in {} |-> None]

\* Body applied to the value of x: a local variable assigned once and read
\* several times
With(x, Body(_)) == CHOOSE r \in {Body(y) : y \in {x}} : TRUE

\* min(S) and max(S) of a non-empty set of integers
Min(S) == CHOOSE x \in S : \A y \in S : x <= y
Max(S) == CHOOSE x \in S : \A y \in S : y <= x

\* bool(v)
Truthy(v) ==
    CASE v[1] = "none" -> FALSE
      [] v[1] = "bool" -> v[2]
      [] v[1] = "str" -> v[2] # ""
      [] v[1] = "int" -> v[2] # 0
      [] v[1] = "dict" -> DOMAIN v[2] # {}
      [] v[1] = "list" -> Len(v[2]) > 0
      [] OTHER -> FALSE

\* v == True  (1 == True holds in Python)
EqTrue(v) == v = PyTrue \/ v = PyInt(1)

\* dict.get(k), k in dict, d[k] = v, d.pop(k), d.update(e) on the mapping of a dict
Get(f, k) == IF k \in DOMAIN f THEN f[k] ELSE None
Has(f, k) == k \in DOMAIN f
Put(f, k, v) == [x \in (DOMAIN f) \cup {k} |-> IF x = k THEN v ELSE f[x]]
Pop(f, k) == [x \in (DOMAIN f) \ {k} |-> f[x]]
Update(f, g) == [x \in (DOMAIN f) \cup (DOMAIN g) |-> IF x \in DOMAIN g THEN g[x] ELSE f[x]]

-----------------------------------------------------------------------------
(* Python str methods, character by character *)

UpperAlpha == "ABCDEFGHIJKLMNOPQRSTUVWXYZ"
LowerAlpha == "abcdefghijklmnopqrstuvwxyz"
Digits == "0123456789"

Ch(s, i) == SubSeq(s, i, i)
InStr(c, s) == \E i \in 1..Len(s) : Ch(s, i) = c
IsDigit(c) == InStr(c, Digits)
IsSpace(c) == c = " "

LowerCh(c) ==
    IF InStr(c, UpperAlpha)
    THEN Ch(LowerAlpha, CHOOSE i \in 1..26 : Ch(UpperAlpha, i) = c)
    ELSE c

UpperCh(c) ==
    IF InStr(c, LowerAlpha)
    THEN Ch(UpperAlpha, CHOOSE i \in 1..26 : Ch(LowerAlpha, i) = c)
    ELSE c

\* the two halves of a string of two or more characters
Left(s) == SubSeq(s, 1, Len(s) \div 2)
Right(s) == SubSeq(s, (Len(s) \div 2) + 1, Len(s))

\* s.lower()
RECURSIVE Lower(_)
Lower(s) == IF Len(s) <= 1 THEN LowerCh(s) ELSE Lower(Left(s)) \o Lower(Right(s))

\* s.upper()
RECURSIVE Upper(_)
Upper(s) == IF Len(s) <= 1 THEN UpperCh(s) ELSE Upper(Left(s)) \o Upper(Right(s))

\* s.strip()
Strip(s) ==
    With({i \in 1..Len(s) : ~IsSpace(Ch(s, i))}, LAMBDA keep :
        IF keep = {} THEN "" ELSE SubSeq(s, Min(keep), Max(keep)))

\* t occurs in s at position i
StartsAt(s, t, i) == i >= 1 /\ i + Len(t) - 1 <= Len(s) /\ SubSeq(s, i, i + Len(t) - 1) = t

\* t in s
Contains(s, t) == \E i \in 1..(Len(s) + 1) : StartsAt(s, t, i)

EndsWith(s, t) == Len(t) <= Len(s) /\ SubSeq(s, Len(s) - Len(t) + 1, Len(s)) = t

\* re.sub of every character of cs by r
RECURSIVE SubChars(_, _, _)
SubChars(s, cs, r) ==
    IF s = "" THEN ""
    ELSE IF Len(s) = 1 THEN (IF InStr(s, cs) THEN r ELSE s)
    ELSE SubChars(Left(s), cs, r) \o SubChars(Right(s), cs, r)

\* s.split(c): the pieces between the occurrences of the character c
Split(s, c) ==
    LET cuts == {i \in 1..Len(s) : Ch(s, i) = c}
        n == Cardinality(cuts)
        cut(k) == IF k = 0 THEN 0
                  ELSE IF k = n + 1 THEN Len(s) + 1
                  ELSE CHOOSE i \in cuts : Cardinality({j \in cuts : j < i}) = k - 1
    IN [k \in 1..(n + 1) |-> SubSeq(s, cut(k - 1) + 1, cut(k) - 1)]

AllDigits(s) == \A i \in 1..Len(s) : IsDigit(Ch(s, i))

\* int(s) raises ValueError: s is not an optionally signed run of digits
\* with optional surrounding whitespace
IntRaises(s) ==
    LET t == Strip(s)
        u == IF t # "" /\ InStr(Ch(t, 1), "+-") THEN SubSeq(t, 2, Len(t)) ELSE t
    IN u = "" \/ ~AllDigits(u)

\* int(s) of a string of digits
RECURSIVE DigitsVal(_)
DigitsVal(s) ==
    IF s = "" THEN 0
    ELSE 10 * DigitsVal(SubSeq(s, 1, Len(s) - 1))
         + ((CHOOSE i \in 1..10 : Ch(Digits, i) = Ch(s, Len(s))) - 1)

IntVal(s) ==
    LET t == Strip(s)
    IN IF t # "" /\ Ch(t, 1) = "-" THEN 0 - DigitsVal(SubSeq(t, 2, Len(t)))
       ELSE IF t # "" /\ Ch(t, 1) = "+" THEN DigitsVal(SubSeq(t, 2, Len(t)))
       ELSE DigitsVal(t)

-----------------------------------------------------------------------------
(* Field normalizers shared by the donor, trustee and beneficiary extractors *)

\* a method call on `result` fails when the model returned something that
\* is not a dictionary
NotADict(v) == v = Raised \/ ~IsDict(v)

\* _clean_date_of_birth with the pivot moved from 50 to 51
CleanDateOfBirthPivot51(v) ==
    IF NotADict(v) THEN Raised
    ELSE LET f == v[2]
             d == Get(f, "date_of_birth")
         IN IF ~Truthy(d) THEN v
            ELSE IF ~IsStr(d) THEN Raised
            ELSE LET dob == SubChars(d[2], "-.", "/")
                     parts == Split(dob, "/")
                 IN IF Len(parts) # 3 THEN v
                    ELSE IF Len(parts[3]) = 2 /\ IntRaises(parts[3]) THEN Raised
                    ELSE LET year == IF Len(parts[3]) = 2
                                     THEN (IF IntVal(parts[3]) > 50
                                           THEN "19" \o parts[3]
                                           ELSE "20" \o parts[3])
                                     ELSE parts[3]
                         IN PyDict(Put(f, "date_of_birth",
                                       PyStr(parts[1] \o "/" \o parts[2] \o "/" \o year)))

\* _clean_date_of_birth
CleanDateOfBirth(v) ==
    IF NotADict(v) THEN Raised
    ELSE LET f == v[2]
             d == Get(f, "date_of_birth")
         IN IF ~Truthy(d) THEN v
            ELSE IF ~IsStr(d) THEN Raised
            ELSE LET dob == SubChars(d[2], "-.", "/")
                     parts == Split(dob, "/")
                 IN IF Len(parts) # 3 THEN v
                    ELSE IF Len(parts[3]) = 2 /\ IntRaises(parts[3]) THEN Raised
                    ELSE LET year == IF Len(parts[3]) = 2
                                     THEN (IF IntVal(parts[3]) >= 50
                                           THEN "19" \o parts[3]
                                           ELSE "20" \o parts[3])
                                     ELSE parts[3]
                         IN PyDict(Put(f, "date_of_birth",
                                       PyStr(parts[1] \o "/" \o parts[2] \o "/" \o year)))

\* re.match(r'^[A-Z]{2}\d{6}[A-Z]$', s)
MatchesNiFull(s) ==
    /\ Len(s) = 9
    /\ \A i \in {1, 2, 9} : InStr(Ch(s, i), UpperAlpha)
    /\ \A i \in 3..8 : IsDigit(Ch(s, i))

\* re.match(r'^[A-Z]{2}\d{6}$', s)
MatchesNiShort(s) ==
    /\ Len(s) = 8
    /\ \A i \in {1, 2} : InStr(Ch(s, i), UpperAlpha)
    /\ \A i \in 3..8 : IsDigit(Ch(s, i))

\* the normalization without the final re.sub
NormalizeNiKeepHyphens(s) == Upper(SubChars(s, " ", ""))

\* ni_number.replace(" ", "").upper(), then the two recognised patterns,
\* otherwise re.sub(r'[-\s]', '', ni_number)
NormalizeNi(s) ==
    LET ni == Upper(SubChars(s, " ", ""))
    IN IF MatchesNiFull(ni) \/ MatchesNiShort(ni) THEN ni
       ELSE SubChars(ni, "- ", "")

\* DonorExtractor / TrusteeExtractor._clean_national_insurance_number
CleanNationalInsuranceNumber(v) ==
    IF NotADict(v) THEN Raised
    ELSE LET f == v[2]
             n == Get(f, "national_insurance_number")
         IN IF ~Truthy(n) THEN v
            ELSE IF ~IsStr(n) THEN Raised
            ELSE PyDict(Put(f, "national_insurance_number", PyStr(NormalizeNi(n[2]))))

\* BeneficiaryExtractor._clean_national_insurance_number
BeneficiaryCleanNationalInsuranceNumber(v) ==
    IF NotADict(v) THEN Raised
    ELSE LET f == v[2]
             n == Get(f, "national_insurance_number")
         IN IF ~Truthy(n) THEN v
            ELSE IF ~IsStr(n) THEN Raised
            ELSE IF Strip(n[2]) = "" THEN PyDict(Put(f, "national_insurance_number", None))
            ELSE PyDict(Put(f, "national_insurance_number", PyStr(NormalizeNi(n[2]))))

\* _clean_address_fields without the removal of the trailing postcode
CleanAddressFieldsNoCut(v) ==
    IF NotADict(v) THEN Raised
    ELSE LET f == v[2]
             p == Get(f, "postcode")
         IN IF Truthy(p) /\ ~IsStr(p) THEN Raised
            ELSE LET f1 == IF Truthy(p) THEN Put(f, "postcode", PyStr(Upper(Strip(p[2])))) ELSE f
                     a == Get(f1, "permanent_residential_address")
                 IN IF ~Truthy(a) THEN PyDict(f1)
                    ELSE IF ~IsStr(a) THEN Raised
                    ELSE PyDict(Put(f1, "permanent_residential_address", PyStr(Strip(a[2]))))

\* _clean_address_fields
CleanAddressFields(v) ==
    IF NotADict(v) THEN Raised
    ELSE LET f == v[2]
             p == Get(f, "postcode")
         IN IF Truthy(p) /\ ~IsStr(p) THEN Raised
            ELSE LET f1 == IF Truthy(p) THEN Put(f, "postcode", PyStr(Upper(Strip(p[2])))) ELSE f
                     a == Get(f1, "permanent_residential_address")
                     p1 == Get(f1, "postcode")
                 IN IF ~Truthy(a) THEN PyDict(f1)
                    ELSE IF ~IsStr(a) THEN Raised
                    ELSE LET address == Strip(a[2])
                             cut == IF Truthy(p1) /\ EndsWith(address, p1[2])
                                    THEN Strip(SubSeq(address, 1, Len(address) - Len(p1[2])))
                                    ELSE address
                         IN PyDict(Put(f1, "permanent_residential_address", PyStr(cut)))

\* U+2713 CHECK MARK, written here as one ASCII character that occurs in no
\* other string of the model
CheckMark == "^"

\* the three characters U+00E2 U+0153 U+201C that the beneficiary source
\* file holds where the other files hold the check mark
GarbledCheckMark == "@~$"

\* the truthy tokens of _clean_boolean_fields (trustee, data privacy statement)
TruthyTokens == {"yes", "true", "y", CheckMark, "x", "checked", "ticked"}

\* the token list of BeneficiaryExtractor._clean_boolean_fields
BeneficiaryTruthyTokens == {"yes", "true", "y", GarbledCheckMark, "x", "checked", "ticked"}

\* the loop body of _clean_boolean_fields over the fields of `fields`
RECURSIVE CoerceBooleans(_, _, _)
CoerceBooleans(f, fields, tokens) ==
    IF fields = <<>> THEN f
    ELSE LET k == Head(fields)
             g == IF Has(f, k) /\ IsStr(f[k])
                  THEN Put(f, k, PyBool(Lower(f[k][2]) \in tokens))
                  ELSE f
         IN CoerceBooleans(g, Tail(fields), tokens)

\* TrusteeExtractor._clean_boolean_fields
TrusteeCleanBooleanFields(v) ==
    IF NotADict(v) THEN Raised
    ELSE PyDict(CoerceBooleans(v[2],
                 <<"existing_aj_bell_account", "born_in_uk", "solely_uk_citizen">>,
                 TruthyTokens))

\* BeneficiaryExtractor._clean_boolean_fields
BeneficiaryCleanBooleanFields(v) ==
    IF NotADict(v) THEN Raised
    ELSE PyDict(CoerceBooleans(v[2], <<"born_in_uk">>, BeneficiaryTruthyTokens))

-----------------------------------------------------------------------------
(* Conditional sub-objects *)

\* non_uk_fields of TrusteeExtractor._process_non_uk_details and of
\* LLMExtractor._process_non_uk_details_structure
TrusteeNonUkFields ==
    {"country_of_birth", "nationality", "id_number", "type_of_number",
     "passport_number", "primary_residence", "secondary_residence",
     "primary_citizenship", "secondary_citizenship"}

\* non_uk_fields of BeneficiaryExtractor._process_non_uk_details
BeneficiaryNonUkFields ==
    {"country_of_birth", "nationality", "id_number", "type_of_number",
     "passport_number", "primary_residence", "secondary_residence",
     "country_of_citizenship", "second_country_of_citizenship"}

\* the fields of `fields` that the loop pops out of result
Collected(f, fields) == [k \in (DOMAIN f) \cap fields |-> f[k]]
Remaining(f, fields) == [k \in (DOMAIN f) \ fields |-> f[k]]

\* _process_non_uk_details without its early return for a true flag
ProcessNonUkDetailsKeepNested(v, flag, key, fields) ==
    IF NotADict(v) THEN Raised
    ELSE LET non_uk_details == Collected(v[2], fields)
             g == Remaining(v[2], fields)
         IN IF Has(g, key) /\ IsDict(g[key])
            THEN PyDict(Put(g, key, PyDict(Update(g[key][2], non_uk_details))))
            ELSE IF DOMAIN non_uk_details # {}
            THEN PyDict(Put(g, key, PyDict(non_uk_details)))
            ELSE PyDict(Put(g, key, None))

\* _process_non_uk_details that leaves an empty object where the source
\* sets None
ProcessNonUkDetailsEmptyObject(v, flag, key, fields) ==
    IF NotADict(v) THEN Raised
    ELSE IF EqTrue(Get(v[2], flag)) THEN PyDict(Put(v[2], key, None))
    ELSE LET non_uk_details == Collected(v[2], fields)
             g == Remaining(v[2], fields)
         IN IF Has(g, key) /\ IsDict(g[key])
            THEN PyDict(Put(g, key, PyDict(Update(g[key][2], non_uk_details))))
            ELSE PyDict(Put(g, key, PyDict(non_uk_details)))

\* the body shared by the two _process_non_uk_details methods
ProcessNonUkDetails(v, flag, key, fields) ==
    IF NotADict(v) THEN Raised
    ELSE LET f == v[2]
         IN IF EqTrue(Get(f, flag)) THEN PyDict(Put(f, key, None))
            ELSE LET non_uk_details == Collected(f, fields)
                     g == Remaining(f, fields)
                 IN IF Has(g, key) /\ IsDict(g[key])
                    THEN PyDict(Put(g, key, PyDict(Update(g[key][2], non_uk_details))))
                    ELSE IF DOMAIN non_uk_details # {}
                    THEN PyDict(Put(g, key, PyDict(non_uk_details)))
                    ELSE PyDict(Put(g, key, None))

\* BeneficiaryExtractor._process_non_uk_details
BeneficiaryProcessNonUkDetails(v) ==
    ProcessNonUkDetails(v, "born_in_uk", "not_born_in_uk", BeneficiaryNonUkFields)

\* TrusteeExtractor._process_non_uk_details
TrusteeProcessNonUkDetails(v) ==
    ProcessNonUkDetails(v, "solely_uk_citizen", "not_uk_details", TrusteeNonUkFields)

\* LLMExtractor._process_non_uk_details_structure, called for trustee details
ProcessNonUkDetailsStructure(v) ==
    IF NotADict(v) THEN Raised
    ELSE LET f == v[2]
         IN IF EqTrue(Get(f, "solely_uk_citizen")) THEN PyDict(Put(f, "not_uk_details", None))
            ELSE LET non_uk_details == Collected(f, TrusteeNonUkFields)
                     g == Remaining(f, TrusteeNonUkFields)
                 IN IF DOMAIN non_uk_details # {}
                    THEN (IF Has(g, "not_uk_details") /\ IsDict(g["not_uk_details"])
                          THEN PyDict(Put(g, "not_uk_details",
                                 PyDict(Update(g["not_uk_details"][2], non_uk_details))))
                          ELSE PyDict(Put(g, "not_uk_details", PyDict(non_uk_details))))
                    ELSE IF ~Truthy(Get(g, "not_uk_details"))
                    THEN PyDict(Put(g, "not_uk_details", None))
                    ELSE PyDict(g)

\* SecurityInformationExtractor._process_security_questions
ProcessSecurityQuestions(v) ==
    IF NotADict(v) THEN Raised
    ELSE LET f == v[2]
             sq == Get(f, "security_questions")
         IN IF Truthy(sq) /\ IsDict(sq) THEN v
            ELSE LET security_questions == Collected(f, {"mother_maiden_name", "first_school_name"})
                     g == Remaining(f, {"mother_maiden_name", "first_school_name"})
                 IN IF DOMAIN security_questions # {}
                    THEN PyDict(Put(g, "security_questions", PyDict(security_questions)))
                    ELSE PyDict(g)

-----------------------------------------------------------------------------
(* Bank account *)

\* re.sub(r'[^0-9]', '', s)
RECURSIVE DigitsOnly(_)
DigitsOnly(s) ==
    IF s = "" THEN ""
    ELSE IF Len(s) = 1 THEN (IF IsDigit(s) THEN s ELSE "")
    ELSE DigitsOnly(Left(s)) \o DigitsOnly(Right(s))

\* NominatedBankAccountExtractor._clean_account_number
CleanAccountNumber(v) ==
    IF NotADict(v) THEN Raised
    ELSE LET a == Get(v[2], "account_number")
         IN IF ~Truthy(a) THEN v
            ELSE IF ~IsStr(a) THEN Raised
            ELSE PyDict(Put(v[2], "account_number", PyStr(DigitsOnly(a[2]))))

\* NominatedBankAccountExtractor._clean_sort_code
CleanSortCode(v) ==
    IF NotADict(v) THEN Raised
    ELSE LET c == Get(v[2], "sort_code")
         IN IF ~Truthy(c) THEN v
            ELSE IF ~IsStr(c) THEN Raised
            ELSE LET digits == DigitsOnly(c[2])
                 IN IF Len(digits) = 6
                    THEN PyDict(Put(v[2], "sort_code",
                           PyStr(SubSeq(digits, 1, 2) \o "-" \o SubSeq(digits, 3, 4)
                                 \o "-" \o SubSeq(digits, 5, 6))))
                    ELSE PyDict(Put(v[2], "sort_code", PyStr(digits)))

-----------------------------------------------------------------------------
(* Dates inside text: \d{1,2} SEP \d{1,2} SEP \d{2,4} *)

DigitAt(s, i) == i >= 1 /\ i <= Len(s) /\ IsDigit(Ch(s, i))
SepAt(s, i, seps) == i >= 1 /\ i <= Len(s) /\ InStr(Ch(s, i), seps)

\* length of the greedy \d{1,2} at i that is followed by a separator, 0 if none
ShortNumLen(s, i, seps) ==
    IF DigitAt(s, i) /\ DigitAt(s, i + 1) /\ SepAt(s, i + 2, seps) THEN 2
    ELSE IF DigitAt(s, i) /\ SepAt(s, i + 1, seps) THEN 1
    ELSE 0

\* length of the greedy \d{2,4} at i, 0 if none
YearLen(s, i) ==
    IF ~(DigitAt(s, i) /\ DigitAt(s, i + 1)) THEN 0
    ELSE IF ~DigitAt(s, i + 2) THEN 2
    ELSE IF ~DigitAt(s, i + 3) THEN 3
    ELSE 4

\* the match of the date pattern at position i: <<day, month, year, end>>,
\* or <<>> when the pattern does not match there
DateAt(s, i, seps) ==
    With(ShortNumLen(s, i, seps), LAMBDA dl :
    With(ShortNumLen(s, i + dl + 1, seps), LAMBDA ml :
    With(YearLen(s, i + dl + ml + 2), LAMBDA yl :
        IF dl = 0 \/ ml = 0 \/ yl = 0 THEN <<>>
        ELSE <<SubSeq(s, i, i + dl - 1),
               SubSeq(s, i + dl + 1, i + dl + ml),
               SubSeq(s, i + dl + ml + 2, i + dl + ml + yl + 1),
               i + dl + ml + yl + 1>>)))

\* str.zfill(2) of a string of one or two digits
ZFill2(s) == IF Len(s) < 2 THEN "0" \o s ELSE s

-----------------------------------------------------------------------------
(* Trustee signatures *)

WordChars == UpperAlpha \o LowerAlpha \o Digits \o "_"

\* length of the longest prefix of s made of characters of cs
RunLen(s, cs) ==
    With({i \in 1..Len(s) : ~InStr(Ch(s, i), cs)}, LAMBDA stop :
        IF stop = {} THEN Len(s) ELSE Min(stop) - 1)

\* re.match(r'trustee(\d+)_(\w+)', key): <<group 1, group 2>>, or <<>>
TrusteeKeyMatch(key) ==
    IF ~StartsAt(key, "trustee", 1) THEN <<>>
    ELSE LET rest == SubSeq(key, 8, Len(key))
             n == RunLen(rest, Digits)
             after == SubSeq(rest, n + 2, Len(rest))
             w == RunLen(after, WordChars)
         IN IF n = 0 \/ ~StartsAt(rest, "_", n + 1) \/ w = 0 THEN <<>>
            ELSE <<SubSeq(rest, 1, n), SubSeq(after, 1, w)>>

\* the first loop: trustee_fields after visiting the keys of `order`,
\* a mapping from trustee_num to a mapping from field_name to value
RECURSIVE TrusteeFields(_, _, _)
TrusteeFields(f, order, acc) ==
    IF order = <<>> THEN acc
    ELSE LET key == Head(order)
             m == TrusteeKeyMatch(key)
         IN IF ~Has(f, key) \/ m = <<>> THEN TrusteeFields(f, Tail(order), acc)
            ELSE LET num == m[1]
                     grp == IF num \in DOMAIN acc THEN acc[num] ELSE EmptyMap
                     grp1 == IF Truthy(f[key]) \/ m[2] = "signature"
                             THEN Put(grp, m[2], f[key])
                             ELSE grp
                 IN TrusteeFields(f, Tail(order), Put(acc, num, grp1))

\* a < b for Python strings of digits (code point order)
RECURSIVE StrLess(_, _)
StrLess(a, b) ==
    IF b = "" THEN FALSE
    ELSE IF a = "" THEN TRUE
    ELSE IF Ch(a, 1) = Ch(b, 1) THEN StrLess(SubSeq(a, 2, Len(a)), SubSeq(b, 2, Len(b)))
    ELSE DigitsVal(Ch(a, 1)) < DigitsVal(Ch(b, 1))

\* sorted(trustee_fields.keys())
RECURSIVE SortedKeys(_)
SortedKeys(S) ==
    IF S = {} THEN <<>>
    ELSE LET m == CHOOSE x \in S : \A y \in S : x = y \/ StrLess(x, y)
         IN <<m>> \o SortedKeys(S \ {m})

\* the date clean-up of one signature entry; Raised when re.search is
\* handed a value that is not a string
CleanSignatureDate(d) ==
    IF ~Truthy(d) THEN d
    ELSE IF ~IsStr(d) THEN Raised
    ELSE With({i \in 1..Len(d[2]) : DateAt(d[2], i, "/.-") # <<>>}, LAMBDA hits :
            IF hits = {} THEN d
            ELSE With(DateAt(d[2], Min(hits), "/.-"), LAMBDA m :
                    PyStr(ZFill2(m[1]) \o "/" \o ZFill2(m[2]) \o "/" \o
                          (IF Len(m[3]) = 2
                           THEN (IF IntVal(m[3]) < 50 THEN "20" \o m[3] ELSE "19" \o m[3])
                           ELSE m[3]))))

\* a condition that asks for a name and ignores the signature
GroupQualifiesNameOnly(fields) == Truthy(Get(fields, "name"))

\* whether the group is appended
GroupQualifies(fields) == Truthy(Get(fields, "name")) \/ Truthy(Get(fields, "signature"))

\* the list entry built for one group
SignatureEntry(fields) ==
    With(CleanSignatureDate(Get(fields, "date")), LAMBDA date :
        IF date = Raised THEN Raised
        ELSE PyDict([name |-> Get(fields, "name"),
                     date |-> date,
                     signature |-> IF Truthy(Get(fields, "signature"))
                                   THEN PyStr("Present") ELSE None]))

\* the second loop: the entries appended for the groups of `nums`, as pairs
\* <<trustee_num, entry>>; Raised as soon as an entry raises
RECURSIVE Appended(_, _)
Appended(tf, nums) ==
    IF nums = <<>> THEN <<>>
    ELSE With(Appended(tf, Tail(nums)), LAMBDA rest :
            IF ~GroupQualifies(tf[Head(nums)]) THEN rest
            ELSE With(SignatureEntry(tf[Head(nums)]), LAMBDA entry :
                    IF entry = Raised \/ rest = Raised THEN Raised
                    ELSE <<<<Head(nums), entry>>>> \o rest))

\* emission order of the groups
GroupOrder(tf) == SortedKeys(DOMAIN tf)

\* DataPrivacyStatementExtractor._process_trustee_signatures_from_flat_structure:
\* <<result, the trustee_num of each appended entry>>
ProcessTrusteeSignatures(v, order) ==
    IF NotADict(v) THEN <<Raised, <<>>>>
    ELSE With(IF ~Has(v[2], "trustee_signatures") \/ ~Truthy(v[2]["trustee_signatures"])
              THEN Put(v[2], "trustee_signatures", PyList(<<>>))
              ELSE v[2], LAMBDA f0 :
         With(TrusteeFields(f0, order, EmptyMap), LAMBDA tf :
         With([k \in {x \in DOMAIN f0 : TrusteeKeyMatch(x) = <<>>} |-> f0[k]], LAMBDA g :
         With(Appended(tf, GroupOrder(tf)), LAMBDA app :
            IF app = Raised THEN <<Raised, <<>>>>
            ELSE IF app # <<>> /\ ~IsList(g["trustee_signatures"]) THEN <<Raised, <<>>>>
            ELSE IF app = <<>> THEN <<PyDict(g), <<>>>>
            ELSE <<PyDict(Put(g, "trustee_signatures",
                       PyList(g["trustee_signatures"][2]
                              \o [i \in 1..Len(app) |-> app[i][2]]))),
                   [i \in 1..Len(app) |-> app[i][1]]>>))))

\* DataPrivacyStatementExtractor._clean_boolean_fields
PrivacyCleanBooleanFields(v) ==
    IF NotADict(v) THEN Raised
    ELSE PyDict(CoerceBooleans(v[2],
                 <<"identity_verification_consent", "fraud_prevention_checks_consent",
                   "communication_preference_consent">>,
                 TruthyTokens))

-----------------------------------------------------------------------------
(* Deceased inference *)

\* deceased_indicators of DonorExtractor._infer_deceased_status
DeceasedIndicators ==
    {"has passed away", "deceased donor", "leave the residential address blank",
     "tick here if the donor has passed away"}

\* checkbox_indicators; the ballot boxes, the check mark and the cross are
\* written as ASCII stand-ins
CheckboxIndicators == {"{v}", "{x}", "[" \o CheckMark \o "]", "(" \o CheckMark \o ")", CheckMark, "*"}

\* _infer_deceased_status without text.lower()
InferDeceasedCaseSensitive(v, t) ==
    IF NotADict(v) THEN Raised
    ELSE LET f0 == IF ~Has(v[2], "deceased") THEN Put(v[2], "deceased", PyFalse) ELSE v[2]
         IN IF \E ind \in DeceasedIndicators : Contains(t, ind)
            THEN PyDict(Put(f0, "deceased", PyTrue)) ELSE PyDict(f0)

\* DonorExtractor._infer_deceased_status
InferDeceasedStatus(v, t) ==
    IF NotADict(v) THEN Raised
    ELSE LET f0 == IF ~Has(v[2], "deceased") THEN Put(v[2], "deceased", PyFalse) ELSE v[2]
             f1 == IF \E ind \in DeceasedIndicators : Contains(Lower(t), ind)
                   THEN Put(f0, "deceased", PyTrue) ELSE f0
             f2 == IF \E ind \in DeceasedIndicators : \E box \in CheckboxIndicators :
                          \/ Contains(t, box \o ".*" \o ind)
                          \/ Contains(t, ind \o ".*" \o box)
                   THEN Put(f1, "deceased", PyTrue) ELSE f1
         IN PyDict(f2)

-----------------------------------------------------------------------------
(* The regular expressions of RegexExtractor._configure_patterns.            *)
(*                                                                           *)
(* Every pattern of the source has the shape                                 *)
(*     literal  gap  middle  separators*  capture                            *)
(* and is written as a record: lits are the alternatives of the literal in   *)
(* the order the regex tries them, lower-cased (all patterns are compiled    *)
(* with re.IGNORECASE) and with \s+ written as one space; gap is "none",     *)
(* "any" for .* and .*? or "nocolon" for [^:]*?; mid is the literal after    *)
(* the gap; sep is the separator class; cap says how the capture is matched; *)
(* group is the capture-group index of the tuple.                            *)
(***************************************************************************)

Letters == UpperAlpha \o LowerAlpha
AlNum == Letters \o Digits

\* [A-Za-z]+\.*  at k: index of its last character, -1 if it does not match
TitleUnitEnd(s, k) ==
    LET n == RunLen(SubSeq(s, k, Len(s)), Letters)
        d == RunLen(SubSeq(s, k + n, Len(s)), ".")
    IN IF n = 0 THEN -1 ELSE k + n + d - 1

\* (?:\s*/\s*[A-Za-z]+\.*)*  after index e: index of the last character matched
RECURSIVE TitleRest(_, _)
TitleRest(s, e) ==
    LET sp1 == RunLen(SubSeq(s, e + 1, Len(s)), " ")
        sl == e + 1 + sp1
        sp2 == RunLen(SubSeq(s, sl + 1, Len(s)), " ")
        u == TitleUnitEnd(s, sl + 1 + sp2)
    IN IF StartsAt(s, "/", sl) /\ u # -1 THEN TitleRest(s, u) ELSE e

\* [A-Za-z0-9._%+-]+@[A-Za-z0-9.-]+\.[A-Za-z]{2,}  at k
EmailEnd(s, k) ==
    LET n == RunLen(SubSeq(s, k, Len(s)), AlNum \o "._%+-")
        a == k + n
        r == RunLen(SubSeq(s, a + 1, Len(s)), AlNum \o ".-")
        dots == {d \in (a + 2)..(a + r) :
                    Ch(s, d) = "." /\ RunLen(SubSeq(s, d + 1, Len(s)), Letters) >= 2}
    IN IF n = 0 \/ ~StartsAt(s, "@", a) THEN -1
       ELSE With(dots, LAMBDA ds :
               IF ds = {} THEN -1
               ELSE Max(ds) + RunLen(SubSeq(s, Max(ds) + 1, Len(s)), Letters))

\* the first alternative of alts that occurs at k: index of its last character
RECURSIVE AltsEnd(_, _, _)
AltsEnd(low, k, alts) ==
    IF alts = <<>> THEN -1
    ELSE IF StartsAt(low, Head(alts), k) THEN k + Len(Head(alts)) - 1
    ELSE AltsEnd(low, k, Tail(alts))

\* the capture part of pattern p at k: index of its last character (k - 1
\* for a pattern that ends there), -1 if it does not match
CapEnd(s, low, k, p) ==
    CASE p.cap = "none" -> k - 1
      [] p.cap = "run" ->
            LET n == RunLen(SubSeq(s, k, Len(s)), p.cls)
            IN IF n = 0 THEN -1 ELSE k + n - 1
      [] p.cap = "date" ->
            With(DateAt(s, k, p.cls), LAMBDA m : IF m = <<>> THEN -1 ELSE m[4])
      [] p.cap = "alts" -> AltsEnd(low, k, p.alts)
      [] p.cap = "title" ->
            With(TitleUnitEnd(s, k), LAMBDA e : IF e = -1 THEN -1 ELSE TitleRest(s, e))
      [] p.cap = "email" -> EmailEnd(s, k)
      [] OTHER -> -1

\* separators* capture  at q, the separators greedy with backtracking:
\* <<first index of the capture, last index>>, or <<>>
SepCap(s, low, q, p) ==
    With({k \in q..(q + RunLen(SubSeq(s, q, Len(s)), p.sep)) : CapEnd(s, low, k, p) # -1},
         LAMBDA ks : IF ks = {} THEN <<>> ELSE <<Max(ks), CapEnd(s, low, Max(ks), p)>>)

\* the positions the gap of p can end at when it starts at j, tried in
\* ascending order
GapEnds(s, j, p) ==
    CASE p.gap = "none" -> {j}
      [] p.gap = "any" -> j..(Len(s) + 1)
      [] p.gap = "nocolon" -> {x \in j..(Len(s) + 1) : \A y \in j..(x - 1) : Ch(s, y) # ":"}
      [] OTHER -> {}

\* gap middle separators* capture  at j
AfterLit(s, low, j, p) ==
    With({x \in GapEnds(s, j, p) :
             StartsAt(low, p.mid, x) /\ SepCap(s, low, x + Len(p.mid), p) # <<>>},
         LAMBDA ok : IF ok = {} THEN <<>> ELSE SepCap(s, low, Min(ok) + Len(p.mid), p))

\* a if it is a match, b otherwise
OrElse(a, b) == IF a # <<>> THEN a ELSE b

\* the whole pattern with its literal at i, the alternatives in order
RECURSIVE MatchAt(_, _, _, _, _)
MatchAt(s, low, i, lits, p) ==
    IF lits = <<>> THEN <<>>
    ELSE OrElse(IF StartsAt(low, Head(lits), i)
                THEN AfterLit(s, low, i + Len(Head(lits)), p) ELSE <<>>,
                MatchAt(s, low, i, Tail(lits), p))

\* pattern.search(text), low being the lower-cased text: <<"match", group 1>>
\* for the leftmost match, or <<>>
Search(s, low, p) ==
    With({i \in (IF p.anchored THEN {1} ELSE 1..Len(s)) : MatchAt(s, low, i, p.lits, p) # <<>>},
         LAMBDA hits :
            IF hits = {} THEN <<>>
            ELSE With(MatchAt(s, low, Min(hits), p.lits, p), LAMBDA m :
                    <<"match", SubSeq(s, m[1], m[2])>>))

Pat(lits, gap, mid, sep, cap, cls, alts, group, anchored) ==
    [lits |-> lits, gap |-> gap, mid |-> mid, sep |-> sep, cap |-> cap,
     cls |-> cls, alts |-> alts, group |-> group, anchored |-> anchored]

\* LABEL[:\s]*([CLASS]+), group 1
Run(lits, cls) == Pat(lits, "none", "", ": ", "run", cls, <<>>, 1, FALSE)
\* LABEL[:\s]*(\d{1,2}[SEPS]\d{1,2}[SEPS]\d{2,4}), group 1
Date(lits, seps) == Pat(lits, "none", "", ": ", "date", seps, <<>>, 1, FALSE)
\* LABEL, group 0
Flag(lits) == Pat(lits, "none", "", "", "none", "", <<>>, 0, FALSE)
\* LABEL.*MIDDLE, group 0
FlagThen(lits, mid) == Pat(lits, "any", mid, "", "none", "", <<>>, 0, FALSE)

DobPatterns == << Date(<<"date of birth">>, "/-"), Date(<<"dob">>, "/-") >>

\* the fields of a section in declaration order, each with its patterns
SectionPatterns(sec) ==
    CASE sec = "trust_registration" -> <<
        <<"HMRC_unique_reference_number", <<
            Pat(<<"urn">>, "none", "", "=: -", "run", AlNum \o "-", <<>>, 1, FALSE),
            Pat(<<"hmrc unique reference number", "hmrc unique reference urn">>,
                "none", "", "=: -", "run", AlNum \o "-", <<>>, 1, FALSE),
            Pat(<<"reference", "urn">>, "none", "", "=: -", "run", AlNum \o "-", <<>>, 1, FALSE) >> >>,
        <<"proof_of_registration_attached", <<
            Flag(<<"proof of registration is attached", "proof of registration attached">>),
            Flag(<<"attached proof of registration">>),
            Flag(<<"have included the proof", "have included proof",
                   "have attached the proof", "have attached proof",
                   "has included the proof", "has included proof",
                   "has attached the proof", "has attached proof">>) >> >> >>
      [] sec = "donor_details" -> <<
        <<"title", << Pat(<<"title">>, "none", "", ": ", "title", "", <<>>, 1, FALSE) >> >>,
        <<"surname", << Run(<<"surname">>, Letters \o "-") >> >>,
        <<"forenames", << Run(<<"forename(s)", "forename">>, Letters \o " -") >> >>,
        <<"date_of_birth", DobPatterns>>,
        <<"national_insurance_number", <<
            Run(<<"national insurance number">>, AlNum \o " "),
            Run(<<"nino", "ni">>, AlNum \o " ") >> >>,
        <<"permanent_residential_address", << Run(<<"residential address">>, AlNum \o " ,.-") >> >>,
        <<"postcode", << Run(<<"postcode">>, AlNum \o " ") >> >>,
        <<"country_of_residence", << Run(<<"country of residence">>, Letters \o " ") >> >>,
        <<"country_of_nationality", << Run(<<"country of nationality">>, Letters \o " ") >> >>,
        <<"deceased", << Flag(<<"donor has passed away">>), Flag(<<"deceased">>) >> >> >>
      [] sec = "trustee_details" -> <<
        <<"title", << Pat(<<"title">>, "none", "", ": ", "title", "", <<>>, 1, FALSE) >> >>,
        <<"surname", << Run(<<"surname">>, Letters \o "-") >> >>,
        <<"forenames", << Run(<<"forename(s)", "forename">>, Letters \o " -") >> >>,
        <<"date_of_birth", DobPatterns>>,
        <<"national_insurance_number", <<
            Run(<<"national insurance number">>, AlNum \o " "),
            Run(<<"nino", "ni">>, AlNum \o " ") >> >>,
        <<"permanent_residential_address", << Run(<<"residential address">>, AlNum \o " ,.-") >> >>,
        <<"postcode", << Run(<<"postcode">>, AlNum \o " ") >> >>,
        <<"country", << Pat(<<"country">>, "none", "", ": ", "run", Letters \o " ", <<>>, 1, TRUE) >> >>,
        <<"telephone_number", << Run(<<"telephone number">>, Digits \o " ") >> >>,
        <<"email_address", << Pat(<<"email address">>, "none", "", ": ", "email", "", <<>>, 1, FALSE) >> >>,
        <<"existing_aj_bell_account", <<
            Pat(<<"existing aj bell account?">>, "none", "", ": ", "alts", "", <<"yes">>, 0, FALSE) >> >>,
        <<"existing_account_number", << Run(<<"existing account number">>, AlNum \o " ") >> >>,
        <<"born_in_uk", << FlagThen(<<"born in the uk?">>, "yes") >> >>,
        <<"solely_uk_citizen", << FlagThen(<<"solely a uk citizen">>, "yes") >> >>,
        <<"country_of_birth", << Run(<<"country of birth">>, Letters \o " ") >> >>,
        <<"nationality", << Run(<<"nationality">>, Letters \o " ") >> >>,
        <<"id_number", << Run(<<"identification number">>, AlNum \o " -") >> >>,
        <<"type_of_number", << Run(<<"type of number">>, Letters \o " ") >> >>,
        <<"passport_number", << Run(<<"passport number">>, AlNum \o " -") >> >>,
        <<"primary_residence", << Run(<<"country of residence for tax purposes">>, Letters \o " ") >> >>,
        <<"secondary_residence", << Run(<<"second country of residence for tax purposes">>, Letters \o " ") >> >>,
        <<"primary_citizenship", << Run(<<"country of citizenship">>, Letters \o " ") >> >>,
        <<"secondary_citizenship", << Run(<<"second country of citizenship">>, Letters \o " ") >> >> >>
      [] sec = "beneficiary_details" -> <<
        <<"title", <<
            Pat(<<"title">>, "none", "", ": ", "alts", "",
                <<"dr", "mr", "mrs", "miss", "ms", "other">>, 1, FALSE),
            Flag(<<"dr", "mr", "mrs", "miss", "ms">>) >> >>,
        <<"surname", << Run(<<"surname">>, Letters \o " .-"), Run(<<"last name">>, Letters \o " .-") >> >>,
        <<"forenames", << Run(<<"forename(s)">>, Letters \o " .-"), Run(<<"first name">>, Letters \o " .-") >> >>,
        <<"date_of_birth", DobPatterns>>,
        <<"national_insurance_number", <<
            Run(<<"national insurance number">>, AlNum \o " "),
            Run(<<"ni number">>, AlNum \o " ") >> >>,
        <<"permanent_residential_address", <<
            Run(<<"permanent residential address">>, AlNum \o " ,.-"),
            Run(<<"address">>, AlNum \o " ,.-") >> >>,
        <<"postcode", << Run(<<"postcode">>, AlNum \o " ") >> >>,
        <<"country", << Run(<<"country">>, Letters \o " ") >> >>,
        <<"telephone_number", <<
            Run(<<"telephone number">>, Digits \o "+ "),
            Run(<<"phone">>, Digits \o "+ ") >> >>,
        <<"email_address", <<
            Run(<<"email address">>, AlNum \o "@._-"),
            Run(<<"email">>, AlNum \o "@._-") >> >>,
        <<"born_in_uk", << FlagThen(<<"born in the uk?">>, "yes") >> >>,
        <<"solely_uk_citizen", << FlagThen(<<"solely a uk citizen">>, "yes") >> >>,
        <<"country_of_birth", << Run(<<"country of birth">>, Letters \o " ") >> >>,
        <<"nationality", << Run(<<"nationality">>, Letters \o " ") >> >>,
        <<"primary_residence", << Run(<<"country of residence for tax purposes">>, Letters \o " ") >> >>,
        <<"secondary_residence", << Run(<<"second country of residence for tax purposes">>, Letters \o " ") >> >>,
        <<"primary_citizenship", << Run(<<"country of citizenship">>, Letters \o " ") >> >>,
        <<"secondary_citizenship", << Run(<<"second country of citizenship">>, Letters \o " ") >> >> >>
      [] sec = "nominated_bank_account" -> <<
        <<"account_holder_name", <<
            Run(<<"account holder's name", "account holder name">>, Letters \o " .-"),
            Run(<<"name of account holder">>, Letters \o " .-") >> >>,
        <<"account_number", <<
            Run(<<"bank account number", "building society account number">>, Digits \o " "),
            Run(<<"account number">>, Digits \o " ") >> >>,
        <<"sort_code", << Run(<<"sort code">>, Digits \o "- ") >> >> >>
      [] sec = "security_information" -> <<
        <<"username", <<
            Run(<<"username">>, AlNum \o " "),
            Pat(<<"create the username", "create username">>, "nocolon", "", ": ", "run",
                AlNum \o " ", <<>>, 1, FALSE) >> >>,
        <<"mother_maiden_name", <<
            Run(<<"mother's maiden name", "mother maiden name">>, Letters \o " .-") >> >>,
        <<"first_school_name", <<
            Run(<<"name of your first school", "name of first school", "first school name">>,
                AlNum \o " ,.-") >> >> >>
      [] sec = "data_privacy_statement" -> <<
        <<"identity_verification_consent", <<
            FlagThen(<<"identity verification">>, "yes"),
            FlagThen(<<"identity verification">>, "no") >> >>,
        <<"fraud_prevention_checks_consent", <<
            FlagThen(<<"fraud prevention">>, "yes"),
            FlagThen(<<"fraud prevention">>, "no") >> >>,
        <<"communication_preference_consent", <<
            FlagThen(<<"would like to receive communications">>, "yes"),
            FlagThen(<<"would like to receive communications">>, "no") >> >>,
        <<"trustee1_name", <<
            Pat(<<"trustee 1">>, "any", "name", ": ", "run", Letters \o " .-", <<>>, 1, FALSE) >> >>,
        <<"trustee1_date", <<
            Pat(<<"trustee 1">>, "any", "date", ": ", "date", "/.-", <<>>, 1, FALSE) >> >>,
        <<"trustee1_signature", << FlagThen(<<"trustee 1">>, "signature") >> >>,
        <<"trustee2_name", <<
            Pat(<<"trustee 2">>, "any", "name", ": ", "run", Letters \o " .-", <<>>, 1, FALSE) >> >>,
        <<"trustee2_date", <<
            Pat(<<"trustee 2">>, "any", "date", ": ", "date", "/.-", <<>>, 1, FALSE) >> >>,
        <<"trustee2_signature", << FlagThen(<<"trustee 2">>, "signature") >> >> >>
      [] OTHER -> <<>>

\* the keys of self.patterns, in order
FieldOrder(sec) == [i \in 1..Len(SectionPatterns(sec)) |-> SectionPatterns(sec)[i][1]]
ConfiguredFields(sec) == {SectionPatterns(sec)[i][1] : i \in 1..Len(SectionPatterns(sec))}

\* the value extract stores for a match m of a pattern with group index g
Stored(m, g) ==
    IF m = <<>> THEN <<>>
    ELSE IF g = 0 THEN PyTrue
    ELSE PyStr(Strip(m[2]))

\* the value of the last pattern of pats that matches: a loop without its break
RECURSIVE LastMatch(_, _, _)
LastMatch(t, low, pats) ==
    IF pats = <<>> THEN <<>>
    ELSE OrElse(LastMatch(t, low, Tail(pats)),
                Stored(Search(t, low, Head(pats)), Head(pats).group))

\* the value extract stores for the first pattern of pats that matches,
\* <<>> when none does
RECURSIVE FirstMatch(_, _, _)
FirstMatch(t, low, pats) ==
    IF pats = <<>> THEN <<>>
    ELSE OrElse(Stored(Search(t, low, Head(pats)), Head(pats).group),
                FirstMatch(t, low, Tail(pats)))

\* the default of a field no pattern matched
DefaultValue(field) ==
    IF field \in {"proof_of_registration_attached", "deceased", "born_in_uk"} THEN PyFalse
    ELSE IF field \in {"not_born_in_uk", "security_questions"} THEN None
    ELSE PyStr("")

\* extract without its default fill
NoDefaultFill(result, field) == result

\* "if field not in result": the default fill of one field
DefaultFill(result, field) ==
    IF ~Has(result, field) THEN Put(result, field, DefaultValue(field)) ELSE result

\* the entries the pattern loops store: the fields one of whose patterns matches
Matched(t, low, items) ==
    With([i \in 1..Len(items) |-> FirstMatch(t, low, items[i][2])], LAMBDA val :
        [k \in {items[i][1] : i \in {j \in 1..Len(items) : val[j] # <<>>}} |->
            val[CHOOSE i \in 1..Len(items) : items[i][1] = k]])

\* the loop of extract over self.patterns.items(): an iteration reads and
\* writes the entry of its own field only, so the result is the matched
\* entries together with the default fill of every field
ExtractLoop(t, low, items) ==
    With(Matched(t, low, items), LAMBDA matched :
        [k \in UNION {DOMAIN DefaultFill(matched, items[i][1]) : i \in 1..Len(items)} |->
            DefaultFill(matched, k)[k]])

\* RegexExtractor.extract
RegexExtract(sec, t) ==
    With(Lower(t), LAMBDA low : PyDict(ExtractLoop(t, low, SectionPatterns(sec))))

-----------------------------------------------------------------------------
(* The extractors *)

Sections ==
    {"trust_registration", "donor_details", "trustee_details", "beneficiary_details",
     "nominated_bank_account", "security_information", "data_privacy_statement"}

\* the try block of LLMExtractor.extract: the value of chain.invoke, put
\* through _process_non_uk_details_structure for trustee details; Raised
\* when either raises
TryModel(sec, response) ==
    IF response = Raised THEN Raised
    ELSE IF sec = "trustee_details" THEN ProcessNonUkDetailsStructure(response)
    ELSE response

\* an except branch that returns an empty dictionary
FallbackEmpty(tried, sec, t) ==
    IF tried = Raised THEN PyDict(EmptyMap) ELSE tried

\* the except branch of LLMExtractor.extract, taken when the try block raised
Fallback(tried, sec, t) ==
    IF tried = Raised THEN RegexExtract(sec, t) ELSE tried

\* LLMExtractor.extract
LLMExtract(sec, t, response) == Fallback(TryModel(sec, response), sec, t)

\* list(result.keys()) of the dictionary LLMExtractor.extract returned: the
\* order of the model's keys, or the declaration order of the patterns
ResultKeys(sec, response, order) ==
    IF TryModel(sec, response) = Raised THEN FieldOrder(sec) ELSE order

\* DonorExtractor.extract
DonorExtractorExtract(t, response) ==
    InferDeceasedStatus(
        CleanAddressFields(CleanNationalInsuranceNumber(CleanDateOfBirth(
            LLMExtract("donor_details", t, response)))), t)

\* TrusteeExtractor.extract
TrusteeExtractorExtract(t, response) ==
    TrusteeProcessNonUkDetails(TrusteeCleanBooleanFields(
        CleanAddressFields(CleanNationalInsuranceNumber(CleanDateOfBirth(
            LLMExtract("trustee_details", t, response))))))

\* BeneficiaryExtractor.extract
BeneficiaryExtractorExtract(t, response) ==
    BeneficiaryProcessNonUkDetails(BeneficiaryCleanBooleanFields(
        CleanAddressFields(BeneficiaryCleanNationalInsuranceNumber(CleanDateOfBirth(
            LLMExtract("beneficiary_details", t, response))))))

\* NominatedBankAccountExtractor.extract
BankExtractorExtract(t, response) ==
    CleanSortCode(CleanAccountNumber(LLMExtract("nominated_bank_account", t, response)))

\* SecurityInformationExtractor.extract
SecurityExtractorExtract(t, response) ==
    ProcessSecurityQuestions(LLMExtract("security_information", t, response))

\* DataPrivacyStatementExtractor.extract: <<result, trustee_num of each appended entry>>
PrivacyExtractorExtract(t, response, order) ==
    With(ProcessTrusteeSignatures(
             LLMExtract("data_privacy_statement", t, response),
             ResultKeys("data_privacy_statement", response, order)),
         LAMBDA agg : <<PrivacyCleanBooleanFields(agg[1]), agg[2]>>)

-----------------------------------------------------------------------------
(* Inputs *)

\* the number of fragments a section text is made of, at most
MaxFragments == 1

Fragments ==
    {"", "  ",
     "The donor HAS PASSED AWAY",
     "born in the UK? Yes Nationality: French",
     "Country of citizenship: France",
     "solely a UK citizen Yes",
     "Trustee 1 Name: A Date: 1.2.99 Signature",
     "Trustee 2 Name: B",
     "Date of birth: 01-02-99 Postcode: ab1",
     "Sort code: 12 34 56",
     "Username: bob URN: A1",
     "Reference: R9 URN: A1",
     "identity verification Yes"}

\* the texts made of n fragments joined by a space
RECURSIVE Joined(_)
Joined(n) ==
    IF n <= 1 THEN Fragments
    ELSE {a \o " " \o b : a \in Joined(n - 1), b \in Fragments}

\* the section texts the fallback is tried on
Texts == UNION {Joined(n) : n \in 1..MaxFragments}

\* the section texts a model response is combined with
ResponseTexts == {"", "x Has Passed Away"}

Absent == <<"absent">>

\* the dictionaries that give each key of ks one of its options, or leave
\* it out for the option Absent
RECURSIVE Combos(_, _)
Combos(ks, opts) ==
    IF ks = <<>> THEN {EmptyMap}
    ELSE {IF v = Absent THEN f ELSE Put(f, Head(ks), v) :
             f \in Combos(Tail(ks), opts), v \in opts[Head(ks)]}

Opt(vals) == {Absent} \cup vals

\* responses that parse but are not a JSON object
WrongShape == {PyList(<<>>), PyStr("n/a")}

ExistingEntry == PyDict([name |-> PyStr("Z"), date |-> None, signature |-> PyStr("Present")])

\* the values chain.invoke returns when it does not raise
Responses(sec) ==
    WrongShape \cup
    CASE sec = "trust_registration" ->
           {PyDict(f) : f \in Combos(<<"HMRC_unique_reference_number", "proof_of_registration_attached">>,
              [HMRC_unique_reference_number |-> Opt({PyStr("A1")}),
               proof_of_registration_attached |-> Opt({PyTrue, PyStr("yes")})])}
      [] sec = "donor_details" ->
           {PyDict(f) : f \in Combos(<<"date_of_birth", "national_insurance_number", "postcode",
                                      "permanent_residential_address", "deceased">>,
              [date_of_birth |-> Opt({PyStr("01-02-99"), PyStr("ab-cd-ef"), PyInt(1999)}),
               national_insurance_number |-> Opt({PyStr("ab 12 34 56 c"), PyStr("  "), PyInt(123)}),
               postcode |-> Opt({PyStr("sw1a 1aa")}),
               permanent_residential_address |-> Opt({PyStr("10 Downing St SW1A 1AA")}),
               deceased |-> Opt({PyTrue, PyFalse})])}
      [] sec = "trustee_details" ->
           {PyDict(f) : f \in Combos(<<"solely_uk_citizen", "born_in_uk", "nationality",
                                      "primary_citizenship", "not_uk_details", "date_of_birth">>,
              [solely_uk_citizen |-> Opt({PyTrue, PyFalse, PyStr("Yes"), PyStr("maybe")}),
               born_in_uk |-> Opt({PyStr("Yes")}),
               nationality |-> Opt({PyStr("French")}),
               primary_citizenship |-> Opt({PyStr("France")}),
               not_uk_details |-> Opt({None, PyDict(EmptyMap), PyStr("n/a"),
                                       PyDict([nationality |-> PyStr("x"), id_number |-> PyStr("7")])}),
               date_of_birth |-> Opt({PyStr("ab-cd-ef")})])}
      [] sec = "beneficiary_details" ->
           {PyDict(f) : f \in Combos(<<"born_in_uk", "nationality", "country_of_citizenship",
                                      "primary_citizenship", "not_born_in_uk",
                                      "national_insurance_number">>,
              [born_in_uk |-> Opt({PyTrue, PyFalse, PyStr("Yes"), PyStr("maybe"), PyInt(1)}),
               nationality |-> Opt({PyStr("French")}),
               country_of_citizenship |-> Opt({PyStr("France")}),
               primary_citizenship |-> Opt({PyStr("France")}),
               not_born_in_uk |-> Opt({None, PyDict(EmptyMap), PyStr("n/a"),
                                       PyDict([nationality |-> PyStr("x"), id_number |-> PyStr("7")])}),
               national_insurance_number |-> Opt({PyInt(123)})])}
      [] sec = "nominated_bank_account" ->
           {PyDict(f) : f \in Combos(<<"account_number", "sort_code">>,
              [account_number |-> Opt({PyStr("12 34"), PyInt(5)}),
               sort_code |-> Opt({PyStr("12 34 56"), PyStr("123")})])}
      [] sec = "security_information" ->
           {PyDict(f) : f \in Combos(<<"username", "mother_maiden_name", "first_school_name",
                                      "security_questions">>,
              [username |-> Opt({PyStr("bob")}),
               mother_maiden_name |-> Opt({PyStr("Smith")}),
               first_school_name |-> Opt({PyStr("Oak")}),
               security_questions |-> Opt({None, PyDict(EmptyMap), PyStr("n/a"),
                                           PyDict([mother_maiden_name |-> PyStr("S")])})])}
      [] sec = "data_privacy_statement" ->
           {PyDict(f) : f \in Combos(<<"trustee1_name", "trustee1_signature", "trustee1_date",
                                      "trustee2_name", "trustee2_signature", "trustee10_name",
                                      "trustee_signatures">>,
              [trustee1_name |-> Opt({PyStr(""), PyStr("A Smith")}),
               trustee1_signature |-> Opt({PyStr(""), PyStr("sig-bytes"), PyFalse}),
               trustee1_date |-> Opt({PyStr("1.2.49"), PyInt(5)}),
               trustee2_name |-> Opt({PyStr(""), PyStr("B")}),
               trustee2_signature |-> Opt({PyStr("")}),
               trustee10_name |-> Opt({PyStr("C")}),
               trustee_signatures |-> Opt({PyList(<<ExistingEntry>>), PyStr("n/a")})])}
      [] OTHER -> {}

\* an order of the keys the responses of the data privacy statement use
PrivacyKeySeq ==
    <<"trustee2_name", "trustee10_name", "trustee_signatures", "trustee1_date",
      "trustee1_signature", "trustee1_name", "trustee2_signature">>

Reverse(q) == [i \in 1..Len(q) |-> q[Len(q) + 1 - i]]

\* the key orders a response is tried with
KeyOrders(sec, response) ==
    IF sec = "data_privacy_statement" /\ IsDict(response)
    THEN LET q == SelectSeq(PrivacyKeySeq, LAMBDA k : k \in DOMAIN response[2])
         IN {q, Reverse(q)}
    ELSE {<<>>}

-----------------------------------------------------------------------------
(* The state machine: one extractor is constructed for a section, handed a *)
(* text and a model that raises or answers `llm`, and one of its extract   *)
(* methods is called.                                                      *)

\* no run of main is under way
DocIdle ==
    /\ pdf_exists = TRUE
    /\ extracted_text = <<>>
    /\ sections = None
    /\ identified_sections = [s \in Sections |-> <<>>]
    /\ sections_to_process = <<>>
    /\ results = EmptyMap
    /\ run = "idle"
    /\ saved = None
    /\ exit_code = None

Init ==
    /\ DocIdle
    /\ section \in Sections
    /\ \/ llm = Raised /\ text \in Texts
       \/ llm \in Responses(section) /\ text \in ResponseTexts
    /\ keyOrder \in KeyOrders(section, llm)
    /\ pc = "start"
    /\ raw = None
    /\ out = None
    /\ emitted = <<>>
    /\ calls = <<>>

\* the RawExtraction the strategy produced
RawExtraction(sec, t, response) ==
    IF TryModel(sec, response) = Raised THEN RegexExtract(sec, t) ELSE response

\* RegexExtractor(section).extract(text)
RegexExtractorExtract ==
    /\ pc = "start"
    /\ pc' = "regex"
    /\ out' = RegexExtract(section, text)
    /\ UNCHANGED <<section, text, llm, keyOrder, raw, emitted, calls, docvars>>

\* LLMExtractor(section).extract(text)
LLMExtractorExtract ==
    /\ pc = "start"
    /\ pc' = "llm"
    /\ out' = LLMExtract(section, text, llm)
    /\ UNCHANGED <<section, text, llm, keyOrder, raw, emitted, calls, docvars>>

Finish(result) ==
    /\ pc = "start"
    /\ pc' = "done"
    /\ raw' = RawExtraction(section, text, llm)
    /\ out' = result
    /\ UNCHANGED <<section, text, llm, keyOrder, calls, docvars>>

TrustExtract ==
    /\ section = "trust_registration"
    /\ Finish(LLMExtract(section, text, llm))
    /\ UNCHANGED emitted

DonorExtract ==
    /\ section = "donor_details"
    /\ Finish(DonorExtractorExtract(text, llm))
    /\ UNCHANGED emitted

TrusteeExtract ==
    /\ section = "trustee_details"
    /\ Finish(TrusteeExtractorExtract(text, llm))
    /\ UNCHANGED emitted

BeneficiaryExtract ==
    /\ section = "beneficiary_details"
    /\ Finish(BeneficiaryExtractorExtract(text, llm))
    /\ UNCHANGED emitted

BankExtract ==
    /\ section = "nominated_bank_account"
    /\ Finish(BankExtractorExtract(text, llm))
    /\ UNCHANGED emitted

SecurityExtract ==
    /\ section = "security_information"
    /\ Finish(SecurityExtractorExtract(text, llm))
    /\ UNCHANGED emitted

PrivacyExtract ==
    /\ section = "data_privacy_statement"
    /\ \E r \in {PrivacyExtractorExtract(text, llm, keyOrder)} :
          /\ Finish(r[1])
          /\ emitted' = r[2]

Next ==
    \/ RegexExtractorExtract
    \/ LLMExtractorExtract
    \/ TrustExtract
    \/ DonorExtract
    \/ TrusteeExtract
    \/ BeneficiaryExtract
    \/ BankExtract
    \/ SecurityExtract
    \/ PrivacyExtract

Spec == Init /\ [][Next]_vars

-----------------------------------------------------------------------------
(* The field normalizers on their own: the model answers with one field    *)
(* group and the section extractor normalizes it.                          *)

\* day, month, separators and year a date_of_birth string is built from
DateDays == {"1", "01"}
DateMonths == {"2", "12"}
DateSeps == {"/", "-", "."}
DateYears == {"99", "05", "50", "49", "00", "1999", "5", "199"}

\* date_of_birth strings of three parts, and strings that are no date
DateStrings ==
    {d \o s1 \o m \o s2 \o y :
        d \in DateDays, s1 \in DateSeps, m \in DateMonths, s2 \in DateSeps, y \in DateYears}
    \cup {"01-02", "1.2.3.4", "1999", "unknown", "ab-cd-ef", "ab-cd-efgh"}

\* the dictionaries with the one key k
Single(k, vals) == {PyDict(Put(EmptyMap, k, v)) : v \in vals}

\* values of national_insurance_number
NiStrings ==
    {"", "  ", "ab 12 34 56 c", "AB-12-34-56-C", "AB123456", "AB123456C", " ab123456 ",
     "x-1 y", "n/a", "ab123456cd"}

\* values of postcode and of permanent_residential_address
PostcodeValues == {None, PyStr(""), PyStr("  "), PyStr("sw1a 1aa"), PyStr(" Sw1a 1AA ")}
AddressStrings ==
    {"10 Downing St SW1A 1AA", "  10 Downing St  SW1A 1AA ", "10 Downing St sw1a 1aa",
     "SW1A 1AA", "10 Downing St", "SW1A 1AA 10 Downing St", " "}

\* values of a boolean field
BooleanValues ==
    {PyTrue, PyFalse} \cup
    {PyStr(s) : s \in {"yes", "Yes", "TRUE", "y", "x", "X", "checked", "Ticked", CheckMark,
                       "no", "false", "", " yes", "on", "1", "yes please"}}

\* boolean_fields of _clean_boolean_fields
BooleanFields(sec) ==
    CASE sec = "trustee_details" -> {"existing_aj_bell_account", "born_in_uk", "solely_uk_citizen"}
      [] sec = "beneficiary_details" -> {"born_in_uk"}
      [] sec = "data_privacy_statement" ->
           {"identity_verification_consent", "fraud_prevention_checks_consent",
            "communication_preference_consent"}
      [] OTHER -> {}

\* the answers of the model in the normalizer runs
NormResponses(sec) ==
    (IF sec \in {"donor_details", "trustee_details", "beneficiary_details"}
     THEN Single("date_of_birth", {PyStr(s) : s \in DateStrings})
          \cup Single("national_insurance_number", {PyStr(s) : s \in NiStrings})
          \cup {PyDict(f) : f \in Combos(<<"postcode", "permanent_residential_address">>,
                    [postcode |-> Opt(PostcodeValues),
                     permanent_residential_address |-> {PyStr(a) : a \in AddressStrings}])}
     ELSE {})
    \cup UNION {Single(k, BooleanValues) : k \in BooleanFields(sec)}
    \cup (IF sec = "data_privacy_statement"
          THEN {PyDict([trustee1_name |-> PyStr("A"), trustee1_date |-> PyStr(d)]) :
                   d \in DateStrings}
          ELSE {})

NormInit ==
    /\ DocIdle
    /\ section \in {"donor_details", "trustee_details", "beneficiary_details",
                    "data_privacy_statement"}
    /\ llm \in NormResponses(section)
    /\ text = ""
    /\ keyOrder \in KeyOrders(section, llm)
    /\ pc = "start"
    /\ raw = None
    /\ out = None
    /\ emitted = <<>>
    /\ calls = <<>>

NormNext ==
    \/ DonorExtract
    \/ TrusteeExtract
    \/ BeneficiaryExtract
    \/ PrivacyExtract

NormSpec == NormInit /\ [][NormNext]_vars

-----------------------------------------------------------------------------
(* A run of main: process_document over the pages of one document *)

\* the members of DocumentSection, in declaration order
DocumentSection ==
    <<"trust_registration", "donor_details", "trustee_details", "beneficiary_details",
      "nominated_bank_account", "security_information", "data_privacy_statement">>

\* the marker phrases of identify_sections
Markers(sec) ==
    CASE sec = "trust_registration" ->
           {"trust registration", "hmrc unique reference", "urn", "proof of registration"}
      [] sec = "donor_details" ->
           {"details of donor", "donor details", "person who made the gift",
            "national insurance number", "permanent residential address"}
      [] sec = "trustee_details" ->
           {"details of trustees", "trustee details", "individual trustee",
            "first individual trustee", "section c", "nominated contact"}
      [] sec = "beneficiary_details" ->
           {"beneficiary details", "details of beneficiary", "section e",
            "named beneficiary", "bare trust"}
      [] sec = "nominated_bank_account" ->
           {"nominated bank account", "section f", "bank account",
            "building society account", "cash withdrawals"}
      [] sec = "security_information" ->
           {"username and security", "section g", "security question",
            "online account", "mother's maiden name", "first school"}
      [] sec = "data_privacy_statement" ->
           {"data privacy statement", "privacy policy", "identity verification",
            "fraud prevention", "communication preference", "trustee signature"}
      [] OTHER -> {}

\* the keys of the page map process_pdf returns: range(len(pdf_document))
PageNums(pages) == [i \in 1..Len(pages) |-> i - 1]

\* any(marker in text_lower for marker in [...])
PageMatches(t, sec) == \E m \in Markers(sec) : Contains(Lower(t), m)

\* an identify_sections that files a page under its first matching section only
IdentifySectionsExclusive(pages) ==
    [sec \in Sections |->
        SelectSeq(PageNums(pages), LAMBDA n :
            /\ PageMatches(pages[n + 1], sec)
            /\ \A i \in 1..Len(DocumentSection) :
                  PageMatches(pages[n + 1], DocumentSection[i])
                      => \E j \in 1..i : DocumentSection[j] = sec)]

\* PDFProcessor.identify_sections
IdentifySections(pages) ==
    [sec \in Sections |->
        SelectSeq(PageNums(pages), LAMBDA n : PageMatches(pages[n + 1], sec))]

\* a selection that ignores the sections argument
SectionsToProcessUnfiltered(filter, identified) ==
    SelectSeq(DocumentSection, LAMBDA s : identified[s] # <<>>)

\* sections_to_process of process_document
SectionsToProcess(filter, identified) ==
    IF Truthy(filter)
    THEN SelectSeq(DocumentSection, LAMBDA s : \E i \in 1..Len(filter[2]) : filter[2][i] = s)
    ELSE SelectSeq(DocumentSection, LAMBDA s : identified[s] # <<>>)

\* a join of every page of the document, whatever the pages of the section
RECURSIVE SectionTextAllPages(_, _)
SectionTextAllPages(pages, nums) ==
    IF pages = <<>> THEN ""
    ELSE IF Len(pages) = 1 THEN pages[1]
    ELSE pages[1] \o " " \o SectionTextAllPages(Tail(pages), nums)

\* " ".join(extracted_text[page] for page in pages)
RECURSIVE SectionText(_, _)
SectionText(pages, nums) ==
    IF nums = <<>> THEN ""
    ELSE IF Len(nums) = 1 THEN pages[nums[1] + 1]
    ELSE pages[nums[1] + 1] \o " " \o SectionText(pages, Tail(nums))

\* the extractor process_document constructs for a section, called on a
\* text: <<result, trustee_num of each appended signature entry>>
ExtractorExtract(sec, t, response, order) ==
    CASE sec = "trust_registration" -> <<LLMExtract(sec, t, response), <<>>>>
      [] sec = "donor_details" -> <<DonorExtractorExtract(t, response), <<>>>>
      [] sec = "trustee_details" -> <<TrusteeExtractorExtract(t, response), <<>>>>
      [] sec = "beneficiary_details" -> <<BeneficiaryExtractorExtract(t, response), <<>>>>
      [] sec = "nominated_bank_account" -> <<BankExtractorExtract(t, response), <<>>>>
      [] sec = "security_information" -> <<SecurityExtractorExtract(t, response), <<>>>>
      [] sec = "data_privacy_statement" -> PrivacyExtractorExtract(t, response, order)

\* the fields the schema registered for a section declares
SchemaFields(sec) ==
    CASE sec = "trust_registration" ->
           {"HMRC_unique_reference_number", "proof_of_registration_attached"}
      [] sec = "donor_details" ->
           {"title", "surname", "forenames", "date_of_birth", "national_insurance_number",
            "permanent_residential_address", "postcode", "country_of_residence",
            "country_of_nationality", "deceased"}
      [] sec = "trustee_details" ->
           {"title", "surname", "forenames", "date_of_birth", "national_insurance_number",
            "permanent_residential_address", "postcode", "country", "telephone_number",
            "email_address", "existing_account", "account_number", "born_in_uk",
            "solely_uk_citizen", "not_uk_details"}
      [] sec = "beneficiary_details" ->
           {"title", "surname", "forenames", "date_of_birth", "national_insurance_number",
            "permanent_residential_address", "postcode", "country", "telephone_number",
            "email_address", "born_in_uk", "not_born_in_uk"}
      [] sec = "nominated_bank_account" ->
           {"account_holder_name", "account_number", "sort_code"}
      [] sec = "security_information" -> {"username", "security_questions"}
      [] sec = "data_privacy_statement" ->
           {"identity_verification_consent", "fraud_prevention_checks_consent",
            "communication_preference_consent", "trustee_signatures"}
      [] OTHER -> {}

\* the number of pages of a document, at most
MaxPages == 2

\* the texts of the pages
PageTexts ==
    {"",
     "Donor Details Date of birth: 01-02-99",
     "Section F Bank Account Sort code: 12 34 56",
     "Trustee Details of the Bare Trust URN: A1",
     "Privacy Policy Security Question Username: bob"}

\* the page maps of the documents
PageMaps == UNION {[1..n -> PageTexts] : n \in 0..MaxPages}

\* the values of args.sections: None, or the one or more names that
\* nargs="+" collects
SectionFilters ==
    {None, PyList(<<"donor_details">>),
     PyList(<<"nominated_bank_account", "donor_details">>),
     PyList(<<"security_information", "trustee_details">>)}

\* the outcomes of the model while a document is processed
DocResponses(sec) ==
    {Raised} \cup
    CASE sec = "trust_registration" ->
           {PyDict([HMRC_unique_reference_number |-> PyStr("A1")])}
      [] sec = "donor_details" ->
           {PyDict([date_of_birth |-> PyStr("ab-cd-ef")]),
            PyDict([surname |-> PyStr("Smith"), nickname |-> PyStr("Al")])}
      [] sec = "trustee_details" -> {PyDict([surname |-> PyStr("Jones")])}
      [] sec = "nominated_bank_account" -> {PyDict([sort_code |-> PyStr("12 34 56")])}
      [] OTHER -> {}

DocInit ==
    /\ section = ""
    /\ text = ""
    /\ llm = None
    /\ keyOrder = <<>>
    /\ pc = "idle"
    /\ raw = None
    /\ out = None
    /\ emitted = <<>>
    /\ calls = <<>>
    /\ pdf_exists \in BOOLEAN
    /\ extracted_text \in (IF pdf_exists THEN PageMaps ELSE {<<>>})
    /\ sections \in SectionFilters
    /\ identified_sections = [s \in Sections |-> <<>>]
    /\ sections_to_process = <<>>
    /\ results = EmptyMap
    /\ run = "start"
    /\ saved = None
    /\ exit_code = None

extractorvars == <<section, text, llm, keyOrder, pc, raw, out, emitted, calls>>

\* process_document, lines 49-50: the file is missing
ProcessDocumentMissing ==
    /\ run = "start"
    /\ ~pdf_exists
    /\ run' = "raised"
    /\ UNCHANGED <<extractorvars, pdf_exists, extracted_text, sections, identified_sections,
                   sections_to_process, results, saved, exit_code>>

\* process_document up to the loop: the pages are indexed and the sections
\* selected; with no section to process it returns the empty map
ProcessDocumentBegin ==
    /\ run = "start"
    /\ pdf_exists
    /\ identified_sections' = IdentifySections(extracted_text)
    /\ sections_to_process' = SectionsToProcess(sections, identified_sections')
    /\ results' = EmptyMap
    /\ run' = IF sections_to_process' = <<>> THEN "returned" ELSE "loop"
    /\ UNCHANGED <<extractorvars, pdf_exists, extracted_text, sections, saved, exit_code>>

\* one iteration of the loop for a section without pages
SkipSection ==
    /\ run = "loop"
    /\ sections_to_process # <<>>
    /\ identified_sections[Head(sections_to_process)] = <<>>
    /\ sections_to_process' = Tail(sections_to_process)
    /\ UNCHANGED <<extractorvars, pdf_exists, extracted_text, sections, identified_sections,
                   results, run, saved, exit_code>>

\* one iteration of the loop for a section with pages: its extractor is
\* called on the joined text; the result is stored, or the exception leaves
\* process_document
ExtractSection ==
    /\ run = "loop"
    /\ sections_to_process # <<>>
    /\ identified_sections[Head(sections_to_process)] # <<>>
    /\ section' = Head(sections_to_process)
    /\ text' = SectionText(extracted_text, identified_sections[section'])
    /\ llm' \in DocResponses(section')
    /\ keyOrder' \in KeyOrders(section', llm')
    /\ raw' = RawExtraction(section', text', llm')
    /\ pc' = "done"
    /\ \E r \in {ExtractorExtract(section', text', llm', keyOrder')} :
          /\ out' = r[1]
          /\ emitted' = r[2]
    /\ IF out' = Raised
       THEN /\ run' = "raised"
            /\ UNCHANGED <<sections_to_process, results>>
       ELSE /\ results' = Put(results, section', out')
            /\ sections_to_process' = Tail(sections_to_process)
            /\ UNCHANGED run
    /\ UNCHANGED <<calls, pdf_exists, extracted_text, sections, identified_sections, saved, exit_code>>

\* return results
ProcessDocumentReturn ==
    /\ run = "loop"
    /\ sections_to_process = <<>>
    /\ run' = "returned"
    /\ UNCHANGED <<extractorvars, pdf_exists, extracted_text, sections, identified_sections,
                   sections_to_process, results, saved, exit_code>>

\* main after process_document returned: the result is saved
MainSave ==
    /\ run = "returned"
    /\ saved' = PyDict(results)
    /\ exit_code' = PyInt(0)
    /\ run' = "exit"
    /\ UNCHANGED <<extractorvars, pdf_exists, extracted_text, sections, identified_sections,
                   sections_to_process, results>>

\* main after process_document raised: the error is printed
MainError ==
    /\ run = "raised"
    /\ exit_code' = PyInt(1)
    /\ run' = "exit"
    /\ UNCHANGED <<extractorvars, pdf_exists, extracted_text, sections, identified_sections,
                   sections_to_process, results, saved>>

DocNext ==
    \/ ProcessDocumentMissing
    \/ ProcessDocumentBegin
    \/ SkipSection
    \/ ExtractSection
    \/ ProcessDocumentReturn
    \/ MainSave
    \/ MainError

DocSpec == DocInit /\ [][DocNext]_vars

-----------------------------------------------------------------------------
(* Schema validation: BaseExtractor.validate on a data dictionary.  The    *)
(* schema classes set no `extra` in model_config, so pydantic ignores keys *)
(* that are no field; a field holds None, a value of its type, or a value  *)
(* pydantic converts to it.                                                *)

\* the annotation of a field: Optional[bool], Optional[<nested model>],
\* Optional[List[TrusteeSignature]] or Optional[str]
FieldType(k) ==
    IF k \in {"proof_of_registration_attached", "deceased", "existing_account", "born_in_uk",
              "solely_uk_citizen", "identity_verification_consent",
              "fraud_prevention_checks_consent", "communication_preference_consent"}
    THEN "bool"
    ELSE IF k \in {"not_uk_details", "not_born_in_uk", "security_questions"} THEN "model"
    ELSE IF k = "trustee_signatures" THEN "list"
    ELSE "str"

\* the fields of the nested model of a field, all Optional[str]
NestedFields(k) ==
    IF k = "security_questions" THEN {"mother_maiden_name", "first_school_name"}
    ELSE IF k = "trustee_signatures" THEN {"name", "date", "signature"}
    ELSE {"country_of_birth", "nationality", "id_number", "type_of_number", "passport_number",
          "primary_residence", "secondary_residence", "country_of_citizenship",
          "second_country_of_citizenship"}

\* the strings pydantic reads as a boolean, lower-cased
BoolStrings == {"0", "off", "f", "false", "n", "no", "1", "on", "t", "true", "y", "yes"}

\* a dictionary is accepted for the nested model of field k
NestedAccepts(k, v) ==
    IsDict(v) /\ \A f \in NestedFields(k) \cap DOMAIN v[2] : v[2][f] = None \/ IsStr(v[2][f])

\* pydantic accepts the value v for the field k
Accepts(k, v) ==
    \/ v = None
    \/ FieldType(k) = "str" /\ IsStr(v)
    \/ FieldType(k) = "bool"
          /\ (IsBool(v) \/ v \in {PyInt(0), PyInt(1)} \/ (IsStr(v) /\ Lower(v[2]) \in BoolStrings))
    \/ FieldType(k) = "model" /\ NestedAccepts(k, v)
    \/ FieldType(k) = "list" /\ IsList(v) /\ \A i \in 1..Len(v[2]) : NestedAccepts(k, v[2][i])

\* model_dump of a nested model built from the dictionary v
NestedDump(k, v) == PyDict([f \in NestedFields(k) |-> Get(v[2], f)])

\* model_dump of the field k built from the accepted value v
Dumped(k, v) ==
    IF v = None THEN None
    ELSE IF FieldType(k) = "bool"
         THEN (IF IsBool(v) THEN v
               ELSE IF IsStr(v) THEN PyBool(Lower(v[2]) \in {"1", "on", "t", "true", "y", "yes"})
               ELSE PyBool(v = PyInt(1)))
    ELSE IF FieldType(k) = "model" THEN NestedDump(k, v)
    ELSE IF FieldType(k) = "list" THEN PyList([i \in 1..Len(v[2]) |-> NestedDump(k, v[2][i])])
    ELSE v

\* BaseExtractor.validate: self.schema_class(**data).model_dump(), or
\* ValueError("Validation failed for <schema_id>: ...")
Validate(sec, data) ==
    IF \E k \in SchemaFields(sec) \cap DOMAIN data[2] : ~Accepts(k, data[2][k])
    THEN Raised
    ELSE PyDict([k \in SchemaFields(sec) |-> Dumped(k, Get(data[2], k))])

\* an extractor is constructed for a section and validate is handed the
\* dictionary `raw`
ValidateInit ==
    /\ DocIdle
    /\ section \in Sections
    /\ text = ""
    /\ llm = None
    /\ keyOrder = <<>>
    /\ pc = "start"
    /\ raw \in {r \in Responses(section) : IsDict(r)}
    /\ out = None
    /\ emitted = <<>>
    /\ calls = <<>>

\* extractor.validate(data)
ValidateCall ==
    /\ pc = "start"
    /\ pc' = "validated"
    /\ out' = Validate(section, raw)
    /\ UNCHANGED <<section, text, llm, keyOrder, raw, emitted, calls, docvars>>

ValidateSpec == ValidateInit /\ [][ValidateCall]_vars

-----------------------------------------------------------------------------
(* LLMExtractor.extract followed statement by statement: the model         *)
(* raises or answers `llm`, and every call of the chain and of the pattern *)
(* strategy is appended to `calls`.                                        *)

\* the longest call log a run is followed to
MaxCalls == 3

\* a handler that calls the chain again after it raised
AfterInvokeRetry(response) == IF response = Raised THEN "start" ELSE "invoked"

\* where control goes after chain.invoke: into the except branch when it
\* raised, to the next statement of the try block otherwise
AfterInvoke(response) == IF response = Raised THEN "except" ELSE "invoked"

\* result = chain.invoke({"text": text})
ChainInvoke ==
    /\ pc = "start"
    /\ Len(calls) < MaxCalls
    /\ calls' = Append(calls, <<"invoke", text>>)
    /\ pc' = AfterInvoke(llm)
    /\ UNCHANGED <<section, text, llm, keyOrder, raw, out, emitted, docvars>>

\* the rest of the try block: _process_non_uk_details_structure for trustee
\* details, which raises on an answer that is not a dictionary, and the return
ReturnResult ==
    /\ pc = "invoked"
    /\ IF TryModel(section, llm) = Raised
       THEN pc' = "except" /\ UNCHANGED out
       ELSE pc' = "returned" /\ out' = TryModel(section, llm)
    /\ UNCHANGED <<section, text, llm, keyOrder, raw, emitted, calls, docvars>>

\* the except branch: RegexExtractor(self.document_section).extract(text)
ExceptFallback ==
    /\ pc = "except"
    /\ calls' = Append(calls, <<"fallback", section, text>>)
    /\ out' = RegexExtract(section, text)
    /\ pc' = "returned"
    /\ UNCHANGED <<section, text, llm, keyOrder, raw, emitted, docvars>>

CallNext == ChainInvoke \/ ReturnResult \/ ExceptFallback

CallSpec == Init /\ [][CallNext]_vars

-----------------------------------------------------------------------------
(* One post-processing method of a section extractor, called on a          *)
(* dictionary and then called again on the dictionary it left.             *)

\* the post-processing methods the extract method of a section calls
Transforms(sec) ==
    CASE sec = "donor_details" ->
           {"_clean_date_of_birth", "_clean_national_insurance_number",
            "_clean_address_fields", "_infer_deceased_status"}
      [] sec \in {"trustee_details", "beneficiary_details"} ->
           {"_clean_date_of_birth", "_clean_national_insurance_number",
            "_clean_address_fields", "_clean_boolean_fields", "_process_non_uk_details"}
      [] sec = "nominated_bank_account" -> {"_clean_account_number", "_clean_sort_code"}
      [] sec = "security_information" -> {"_process_security_questions"}
      [] sec = "data_privacy_statement" ->
           {"_process_trustee_signatures_from_flat_structure", "_clean_boolean_fields"}
      [] OTHER -> {}

\* the dictionary the method `name` of the extractor of sec leaves, called
\* with the dictionary v whose keys are in the order `order`
Transform(sec, name, v, t, order) ==
    CASE name = "_clean_date_of_birth" -> CleanDateOfBirth(v)
      [] name = "_clean_national_insurance_number" ->
           (IF sec = "beneficiary_details" THEN BeneficiaryCleanNationalInsuranceNumber(v)
            ELSE CleanNationalInsuranceNumber(v))
      [] name = "_clean_address_fields" -> CleanAddressFields(v)
      [] name = "_infer_deceased_status" -> InferDeceasedStatus(v, t)
      [] name = "_clean_boolean_fields" ->
           (IF sec = "trustee_details" THEN TrusteeCleanBooleanFields(v)
            ELSE IF sec = "beneficiary_details" THEN BeneficiaryCleanBooleanFields(v)
            ELSE PrivacyCleanBooleanFields(v))
      [] name = "_process_non_uk_details" ->
           (IF sec = "trustee_details" THEN TrusteeProcessNonUkDetails(v)
            ELSE BeneficiaryProcessNonUkDetails(v))
      [] name = "_clean_account_number" -> CleanAccountNumber(v)
      [] name = "_clean_sort_code" -> CleanSortCode(v)
      [] name = "_process_security_questions" -> ProcessSecurityQuestions(v)
      [] name = "_process_trustee_signatures_from_flat_structure" ->
           ProcessTrusteeSignatures(v, order)[1]

\* an address that ends with the postcode twice
RepeatedPostcode ==
    PyDict([postcode |-> PyStr("SW1A 1AA"),
            permanent_residential_address |-> PyStr("10 Downing St SW1A 1AA SW1A 1AA")])

\* the dictionaries a method is called on
TransformInputs(sec) ==
    {r \in Responses(sec) \cup NormResponses(sec) : IsDict(r)}
    \cup (IF sec \in {"donor_details", "trustee_details", "beneficiary_details"}
          THEN {RepeatedPostcode} ELSE {})

TransformInit ==
    /\ DocIdle
    /\ section \in Sections \ {"trust_registration"}
    /\ text \in (IF section = "donor_details" THEN ResponseTexts ELSE {""})
    /\ llm = None
    /\ raw \in TransformInputs(section)
    /\ keyOrder \in KeyOrders(section, raw)
    /\ pc = "start"
    /\ out = None
    /\ emitted = <<>>
    /\ calls = <<>>

\* one of the methods is called on the dictionary
ApplyTransform ==
    /\ pc = "start"
    /\ \E name \in Transforms(section) :
          /\ calls' = <<name>>
          /\ out' = Transform(section, name, raw, text, keyOrder)
    /\ pc' = "once"
    /\ UNCHANGED <<section, text, llm, keyOrder, raw, emitted, docvars>>

\* the same method is called on the dictionary it left
ApplyTransformAgain ==
    /\ pc = "once"
    /\ out # Raised
    /\ calls' = Append(calls, calls[1])
    /\ raw' = out
    /\ keyOrder' = SelectSeq(keyOrder, LAMBDA k : k \in DOMAIN out[2])
    /\ out' = Transform(section, calls[1], out, text, keyOrder')
    /\ pc' = "twice"
    /\ UNCHANGED <<section, text, llm, emitted, docvars>>

TransformNext == ApplyTransform \/ ApplyTransformAgain

TransformSpec == TransformInit /\ [][TransformNext]_vars

-----------------------------------------------------------------------------
(* Properties *)

\* a section extractor's extract returned a dictionary
Returned == pc = "done" /\ IsDict(out)

\* the two sections with a conditional sub-object
Conditional == section \in {"beneficiary_details", "trustee_details"}
FlagOf(sec) == IF sec = "beneficiary_details" THEN "born_in_uk" ELSE "solely_uk_citizen"
NestedKeyOf(sec) == IF sec = "beneficiary_details" THEN "not_born_in_uk" ELSE "not_uk_details"

\* the governing flag of the output is true
FlagTrue == EqTrue(Get(out[2], FlagOf(section)))

\* the value of the nested key in the output, None when the key is missing
Nested == Get(out[2], NestedKeyOf(section))

\* the dependent field names of either section, citizenship fields included
DependentNames == TrusteeNonUkFields \cup BeneficiaryNonUkFields

\* C1: RegexExtractor.extract returns a dictionary whose key set is exactly
\* the set of fields configured for the section, for every section and text.
StableKeySet ==
    pc = "regex" => IsDict(out) /\ DOMAIN out[2] = ConfiguredFields(section)

\* a text that matches one field of its section and not the other
StableKeySetWitness ==
    /\ pc = "regex"
    /\ section = "trust_registration"
    /\ text = "Username: bob URN: A1"
    /\ out = PyDict([HMRC_unique_reference_number |-> PyStr("A1"),
                     proof_of_registration_attached |-> PyFalse])

\* C2: when the model chain raises, LLMExtractor.extract returns exactly what
\* RegexExtractor(section).extract(text) returns.
FallbackIsRegex ==
    pc = "llm" /\ llm = Raised => out = RegexExtract(section, text)

\* the model raised and the fallback matched a field
FallbackIsRegexWitness ==
    /\ pc = "llm"
    /\ llm = Raised
    /\ section = "nominated_bank_account"
    /\ text = "Sort code: 12 34 56"
    /\ IsDict(out)
    /\ Get(out[2], "sort_code") = PyStr("12 34 56")

\* C3: no failure of the model step surfaces as an exception of a section
\* extractor's extract: the call returns a dictionary, post-processing
\* included.
NeverRaises == pc = "done" => IsDict(out)

\* C4: in the output of the beneficiary and trustee extractors, a true
\* governing flag comes with a nested key that is exactly null.
NullWhenFlagTrue ==
    Returned /\ Conditional /\ FlagTrue =>
        Has(out[2], NestedKeyOf(section)) /\ Nested = None

\* the raw extraction held a dependent field and a nested object, the flag
\* is true and the nested key is null
NullWhenFlagTrueWitness ==
    /\ Returned
    /\ section = "beneficiary_details"
    /\ IsDict(raw)
    /\ Has(raw[2], "nationality")
    /\ IsDict(Get(raw[2], "not_born_in_uk"))
    /\ Truthy(Get(raw[2], "not_born_in_uk"))
    /\ FlagTrue
    /\ Has(out[2], "not_born_in_uk")
    /\ Nested = None

\* C5: with the governing flag true, no dependent field name remains a key
\* of the output, at the top level or nested.
DependentsDiscarded ==
    Returned /\ Conditional /\ FlagTrue =>
        /\ DOMAIN out[2] \cap DependentNames = {}
        /\ IsDict(Nested) => DOMAIN Nested[2] \cap DependentNames = {}

\* the dependent fields of the normalizer of a section that the raw
\* extraction holds at the top level
RawDependents ==
    IF ~IsDict(raw) THEN {}
    ELSE DOMAIN raw[2] \cap (IF section = "beneficiary_details"
                             THEN BeneficiaryNonUkFields ELSE TrusteeNonUkFields)

\* what the raw extraction holds at the nested key
RawNested == IF IsDict(raw) THEN Get(raw[2], NestedKeyOf(section)) ELSE None

\* C6 as stated: the nested key is present and non-null if and only if the
\* governing flag is false or absent.
NonNullIffFlagNotTrue ==
    Returned /\ Conditional => ((Nested # None) <=> ~FlagTrue)

\* C6, amended: the nested key is always present; it is non-null only if the
\* flag is false or absent; with the flag false or absent it is an object
\* when the raw extraction held a dependent field at the top level or a
\* non-empty object at the key, and null when it held neither a dependent
\* field nor an object at the key.
NonNullOnlyWhenNeeded ==
    Returned /\ Conditional =>
        /\ Has(out[2], NestedKeyOf(section))
        /\ Nested # None => ~FlagTrue
        /\ ~FlagTrue /\ (RawDependents # {} \/ (IsDict(RawNested) /\ Truthy(RawNested)))
              => IsDict(Nested)
        /\ ~FlagTrue /\ RawDependents = {} /\ ~IsDict(RawNested) => Nested = None

\* the flag is false, nothing was captured, and the nested key is null
NonNullOnlyWhenNeededWitness ==
    /\ Returned
    /\ section = "beneficiary_details"
    /\ Get(out[2], "born_in_uk") = PyFalse
    /\ RawDependents = {}
    /\ ~Has(raw[2], "not_born_in_uk")
    /\ Has(out[2], "not_born_in_uk")
    /\ Nested = None

\* C7: with the flag false or absent, every dependent field the raw
\* extraction holds at the top level is in the nested object with its raw
\* value, and no dependent field name remains a top-level key.
DependentsMoved ==
    Returned /\ Conditional /\ IsDict(raw) /\ ~FlagTrue =>
        \A k \in DOMAIN raw[2] \cap DependentNames :
            /\ k \notin DOMAIN out[2]
            /\ IsDict(Nested)
            /\ Has(Nested[2], k)
            /\ Nested[2][k] = raw[2][k]

PrivacyReturned == Returned /\ section = "data_privacy_statement" /\ IsDict(raw)

\* the trustee numbers of the trusteeN_* keys of the raw extraction
RawGroups ==
    {TrusteeKeyMatch(k)[1] : k \in {x \in DOMAIN raw[2] : TrusteeKeyMatch(x) # <<>>}}

\* the raw value of the field of group n
RawField(n, name) == Get(raw[2], "trustee" \o n \o "_" \o name)

\* the entries trustee_signatures held before the aggregation
PriorEntries ==
    IF Truthy(Get(raw[2], "trustee_signatures")) /\ IsList(raw[2]["trustee_signatures"])
    THEN raw[2]["trustee_signatures"][2]
    ELSE <<>>

\* C8: a group is put into trustee_signatures if and only if it has a
\* non-empty name or a truthy signature; its entry is {name, date, signature}
\* with signature "Present" for a truthy signature and null otherwise, name
\* and date null when not captured; no trusteeN_* key stays at the top level.
SignaturesAggregated ==
    PrivacyReturned =>
        /\ \A n \in RawGroups :
              (\E i \in 1..Len(emitted) : emitted[i] = n)
                  <=> (Truthy(RawField(n, "name")) \/ Truthy(RawField(n, "signature")))
        /\ \A k \in DOMAIN out[2] : TrusteeKeyMatch(k) = <<>>
        /\ emitted # <<>> =>
              /\ IsList(Get(out[2], "trustee_signatures"))
              /\ Len(out[2]["trustee_signatures"][2]) = Len(PriorEntries) + Len(emitted)
              /\ \A i \in 1..Len(emitted) :
                    LET entry == out[2]["trustee_signatures"][2][Len(PriorEntries) + i]
                    IN /\ IsDict(entry)
                       /\ DOMAIN entry[2] = {"name", "date", "signature"}
                       /\ entry[2]["name"] = (IF Truthy(RawField(emitted[i], "name"))
                                              THEN RawField(emitted[i], "name") ELSE None)
                       /\ entry[2]["signature"] = (IF Truthy(RawField(emitted[i], "signature"))
                                                   THEN PyStr("Present") ELSE None)
                       /\ ~Truthy(RawField(emitted[i], "date")) => entry[2]["date"] = None

\* group 1 has a name and a signature, group 2 is empty and is dropped
SignaturesAggregatedWitness ==
    /\ PrivacyReturned
    /\ raw = PyDict([trustee1_name |-> PyStr("A Smith"), trustee1_signature |-> PyStr("sig-bytes"),
                     trustee2_name |-> PyStr(""), trustee2_signature |-> PyStr("")])
    /\ emitted = <<"1">>
    /\ out[2]["trustee_signatures"] =
          PyList(<<PyDict([name |-> PyStr("A Smith"), date |-> None,
                           signature |-> PyStr("Present")])>>)

\* C9: the groups are emitted in ascending numeric order of their index.
AscendingNumericOrder ==
    PrivacyReturned =>
        \A i, j \in 1..Len(emitted) :
            i < j => IntVal(emitted[i]) < IntVal(emitted[j])

\* the section text holds one of the indicator phrases, in any case
TextSaysDeceased == \E ind \in DeceasedIndicators : Contains(Lower(text), ind)

\* C10: after DonorExtractor normalization the deceased key is present, it is
\* true whenever the text holds an indicator phrase in any case, and a
\* structured value of true stays true.
DeceasedIsOr ==
    Returned /\ section = "donor_details" =>
        /\ Has(out[2], "deceased")
        /\ TextSaysDeceased => out[2]["deceased"] = PyTrue
        /\ IsDict(raw) /\ Get(raw[2], "deceased") = PyTrue => out[2]["deceased"] = PyTrue

\* the model answered false, the text says otherwise, and the output is true
DeceasedIsOrWitness ==
    /\ Returned
    /\ section = "donor_details"
    /\ text = "x Has Passed Away"
    /\ IsDict(raw)
    /\ Get(raw[2], "deceased") = PyFalse
    /\ out[2]["deceased"] = PyTrue

\* the section extractor returned and the model had answered a dictionary
Normalized == Returned /\ IsDict(raw)

\* the sections whose extractor has _clean_date_of_birth
DatedSections == {"donor_details", "trustee_details", "beneficiary_details"}

\* the year the normalized date holds for each year the raw date ends with
YearTable ==
    "99" :> "1999" @@ "05" :> "2005" @@ "50" :> "1950" @@ "49" :> "2049" @@
    "00" :> "2000" @@ "1999" :> "1999" @@ "5" :> "5" @@ "199" :> "199"

\* C11: a date_of_birth of three parts separated by '/', '-' or '.' is
\* rewritten with '/' separators; a two-digit year YY becomes 19YY when
\* YY >= 50 and 20YY when YY < 50; any other year is kept; the donor, trustee
\* and beneficiary normalizers apply the same rule.
DateNormalized ==
    Normalized /\ section \in DatedSections =>
        \A d \in DateDays, m \in DateMonths, s1 \in DateSeps, s2 \in DateSeps,
           y \in DOMAIN YearTable :
            Get(raw[2], "date_of_birth") = PyStr(d \o s1 \o m \o s2 \o y)
                => Get(out[2], "date_of_birth")
                       = PyStr(d \o "/" \o m \o "/" \o YearTable[y])

\* the trustee normalizer turned "01.2-50" into "01/2/1950"
DateNormalizedWitness ==
    /\ Normalized
    /\ section = "trustee_details"
    /\ Get(raw[2], "date_of_birth") = PyStr("01.2-50")
    /\ Get(out[2], "date_of_birth") = PyStr("01/2/1950")

\* date strings that do not split into three parts, or whose last part is two
\* characters that are no digits
UnparseableDates == {"01-02", "1.2.3.4", "1999", "unknown", "ab-cd-ef"}

\* C12: date normalization never raises and leaves the value unchanged for
\* every date string that is not parseable, such as "ab-cd-ef" and strings
\* with '-' or '.' that do not split into three parts.
UnparseableDateUnchanged ==
    pc = "done" /\ section \in DatedSections /\ IsDict(raw) =>
        \A s \in UnparseableDates :
            Get(raw[2], "date_of_birth") = PyStr(s)
                => IsDict(out) /\ Get(out[2], "date_of_birth") = PyStr(s)

\* the normalized identifier of each raw one that is not blank
NiTable ==
    "ab 12 34 56 c" :> "AB123456C" @@ "AB-12-34-56-C" :> "AB123456C" @@
    "AB123456" :> "AB123456" @@ "AB123456C" :> "AB123456C" @@ " ab123456 " :> "AB123456" @@
    "x-1 y" :> "X1Y" @@ "n/a" :> "N/A" @@ "ab123456cd" :> "AB123456CD"

\* C13: a non-empty national insurance number loses its whitespace and
\* hyphens and is upper-cased: "ab 12 34 56 c" and "AB-12-34-56-C" become
\* "AB123456C", "AB123456" stays, and a value of neither recognised pattern
\* is returned stripped and upper-cased.
NiNormalized ==
    Normalized /\ section \in DatedSections =>
        \A s \in DOMAIN NiTable :
            Get(raw[2], "national_insurance_number") = PyStr(s)
                => Get(out[2], "national_insurance_number") = PyStr(NiTable[s])

\* the donor normalizer turned "AB-12-34-56-C" into "AB123456C"
NiNormalizedWitness ==
    /\ Normalized
    /\ section = "donor_details"
    /\ Get(raw[2], "national_insurance_number") = PyStr("AB-12-34-56-C")
    /\ Get(out[2], "national_insurance_number") = PyStr("AB123456C")

\* C14: in the donor, trustee and beneficiary normalizers a national
\* insurance number that is the empty string or only whitespace is replaced
\* by null.
BlankNiIsNull ==
    Normalized /\ section \in DatedSections =>
        \A s \in {"", "  "} :
            Get(raw[2], "national_insurance_number") = PyStr(s)
                => /\ Has(out[2], "national_insurance_number")
                   /\ out[2]["national_insurance_number"] = None

\* the normalized address of each raw one, when the normalized postcode is
\* "SW1A 1AA" and when there is no postcode
CutTable ==
    "10 Downing St SW1A 1AA" :> "10 Downing St" @@
    "  10 Downing St  SW1A 1AA " :> "10 Downing St" @@
    "10 Downing St sw1a 1aa" :> "10 Downing St sw1a 1aa" @@
    "SW1A 1AA" :> "" @@ "10 Downing St" :> "10 Downing St" @@
    "SW1A 1AA 10 Downing St" :> "SW1A 1AA 10 Downing St" @@ " " :> ""
TrimTable ==
    "10 Downing St SW1A 1AA" :> "10 Downing St SW1A 1AA" @@
    "  10 Downing St  SW1A 1AA " :> "10 Downing St  SW1A 1AA" @@
    "10 Downing St sw1a 1aa" :> "10 Downing St sw1a 1aa" @@
    "SW1A 1AA" :> "SW1A 1AA" @@ "10 Downing St" :> "10 Downing St" @@
    "SW1A 1AA 10 Downing St" :> "SW1A 1AA 10 Downing St" @@ " " :> ""

\* C15: the postcode is trimmed and upper-cased; an address that ends,
\* after trimming, with the normalized postcode loses that trailing
\* occurrence and is trimmed again; any other address is only trimmed.
AddressNormalized ==
    Normalized /\ section \in DatedSections =>
        \A a \in DOMAIN CutTable :
            Get(raw[2], "permanent_residential_address") = PyStr(a) =>
                LET p == Get(raw[2], "postcode")
                IN IF p \in {PyStr("sw1a 1aa"), PyStr(" Sw1a 1AA ")}
                   THEN /\ out[2]["postcode"] = PyStr("SW1A 1AA")
                        /\ out[2]["permanent_residential_address"] = PyStr(CutTable[a])
                   ELSE /\ p = PyStr("  ") => out[2]["postcode"] = PyStr("")
                        /\ out[2]["permanent_residential_address"] = PyStr(TrimTable[a])

\* the beneficiary normalizer removed the postcode from the end of the address
AddressNormalizedWitness ==
    /\ Normalized
    /\ section = "beneficiary_details"
    /\ Get(raw[2], "postcode") = PyStr("sw1a 1aa")
    /\ Get(raw[2], "permanent_residential_address") = PyStr("10 Downing St SW1A 1AA")
    /\ out[2]["postcode"] = PyStr("SW1A 1AA")
    /\ out[2]["permanent_residential_address"] = PyStr("10 Downing St")

\* the seven tokens that stand for true
ClaimedTrueTokens == {"yes", "true", "y", CheckMark, "x", "checked", "ticked"}

\* C16: in the trustee, beneficiary and data privacy normalizers a string
\* value of a declared boolean field becomes true exactly when its lower
\* case is one of yes, true, y, the check mark, x, checked, ticked, and
\* false otherwise; a boolean value is left unchanged.
BooleansCoerced ==
    Normalized =>
        \A k \in BooleanFields(section) :
            Has(raw[2], k) =>
                /\ IsStr(raw[2][k]) => out[2][k] = PyBool(Lower(raw[2][k][2]) \in ClaimedTrueTokens)
                /\ IsBool(raw[2][k]) => out[2][k] = raw[2][k]

\* process_document has indexed the pages
Indexed == pdf_exists /\ run \notin {"idle", "start"}

\* identify_sections has returned and no extractor has been called yet
JustIndexed == Indexed /\ pc = "idle"

\* the page numbers of a list
Elements(q) == {q[i] : i \in 1..Len(q)}

\* C17: a page number is in a section's list exactly when the lower-cased
\* text of the page holds one of the section's marker phrases, whatever the
\* other sections it matches; the list holds every number once, in the
\* order of the page map; the index is a function of the page map alone.
SectionsIdentified ==
    JustIndexed =>
        /\ \A n \in 0..(Len(extracted_text) - 1) :
              With(Lower(extracted_text[n + 1]), LAMBDA lowered :
                  \A sec \in Sections :
                      n \in Elements(identified_sections[sec])
                          <=> \E m \in Markers(sec) : Contains(lowered, m))
        /\ \A sec \in Sections :
              /\ Elements(identified_sections[sec]) \subseteq 0..(Len(extracted_text) - 1)
              /\ \A i, j \in 1..Len(identified_sections[sec]) :
                    i < j => identified_sections[sec][i] < identified_sections[sec][j]

\* the first page is filed under three sections, the second under a fourth
SectionsIdentifiedWitness ==
    /\ JustIndexed
    /\ extracted_text = <<"Trustee Details of the Bare Trust URN: A1",
                          "Donor Details Date of birth: 01-02-99">>
    /\ identified_sections["trustee_details"] = <<0>>
    /\ identified_sections["beneficiary_details"] = <<0>>
    /\ identified_sections["trust_registration"] = <<0>>
    /\ identified_sections["donor_details"] = <<1>>
    /\ identified_sections["nominated_bank_account"] = <<>>

\* the sections the run selects: those of the filter, or all of them
Selected == IF sections = None THEN Sections ELSE Elements(sections[2])

\* C18: the result map has a key for a section only if the section has a
\* non-empty page list and, when a filter is given, is named in the filter;
\* a section without pages is skipped without an error, and when no page
\* matches a selected section the result is the empty map and no error is
\* raised.
ResultKeysSelected ==
    /\ \A s \in DOMAIN results : identified_sections[s] # <<>> /\ s \in Selected
    /\ Indexed /\ (\A s \in Selected : identified_sections[s] = <<>>)
          => /\ results = EmptyMap
             /\ run # "raised"
             /\ exit_code # PyInt(1)
             /\ saved \in {None, PyDict(EmptyMap)}
    /\ Indexed /\ sections_to_process # <<>> /\ identified_sections[Head(sections_to_process)] = <<>>
          => run = "loop" /\ ENABLED SkipSection

\* the filter names the bank account and the donor, the document has pages
\* of the donor and of three sections outside the filter, and the run
\* returned the donor alone
ResultKeysSelectedWitness ==
    /\ run = "returned"
    /\ sections = PyList(<<"nominated_bank_account", "donor_details">>)
    /\ extracted_text = <<"Trustee Details of the Bare Trust URN: A1",
                          "Donor Details Date of birth: 01-02-99">>
    /\ identified_sections["nominated_bank_account"] = <<>>
    /\ DOMAIN results = {"donor_details"}

\* C19: a failure while one section is processed, other than a missing
\* input file, does not abort the run: process_document raises only when
\* the file is missing, and every selected section with pages is in the map
\* it returns.
SectionFailureContained ==
    /\ run = "raised" => ~pdf_exists
    /\ run = "returned" =>
          \A s \in Selected : identified_sections[s] # <<>> => s \in DOMAIN results

\* C20: every entity of the result map was validated against the schema
\* registered for its section before it was stored, so it has only keys the
\* schema declares.
StoredEntitiesValidated ==
    \A s \in DOMAIN results :
        IsDict(results[s]) /\ DOMAIN results[s][2] \subseteq SchemaFields(s)

\* validate has returned or raised
Validated == pc = "validated"

\* the keys of the data dictionary that the section's schema does not declare
UnknownKeys == DOMAIN raw[2] \ SchemaFields(section)

\* C21: validate raises a validation failure for every data dictionary with
\* a key that is no field of the section's schema; when it succeeds the
\* returned dictionary has every field of the schema, with null for the
\* fields the data lacks.
UnknownKeysRejected ==
    Validated =>
        /\ UnknownKeys # {} => out = Raised
        /\ out # Raised =>
              /\ DOMAIN out[2] = SchemaFields(section)
              /\ \A k \in SchemaFields(section) \ DOMAIN raw[2] : out[2][k] = None

\* C22: called with an empty or whitespace-only text, the pattern strategy
\* and the model-backed strategy both return the default-filled extraction
\* of the section, every configured field with its default, and do not fail.
BlankTextDefaultFilled ==
    pc \in {"regex", "llm"} /\ Strip(text) = "" =>
        /\ IsDict(out)
        /\ DOMAIN out[2] = ConfiguredFields(section)
        /\ \A k \in ConfiguredFields(section) : out[2][k] = DefaultValue(k)

\* the number of entries of a call log made by the chain, or by the pattern strategy
Logged(log, what) == Cardinality({i \in 1..Len(log) : log[i][1] = what})

\* C23 as amended: in one call of LLMExtractor.extract the chain is invoked
\* at most once and never again after it failed; when the invocation or the
\* trustee post-processing of its answer failed, the pattern strategy is run
\* exactly once, on the same section and text, and its result is returned;
\* when the try block completed the pattern strategy is not run.
ChainInvokedOnce ==
    /\ Logged(calls, "invoke") <= 1
    /\ pc \in {"invoked", "except", "returned"} => Logged(calls, "invoke") = 1
    /\ pc = "returned" /\ TryModel(section, llm) = Raised =>
          /\ calls = <<<<"invoke", text>>, <<"fallback", section, text>>>>
          /\ out = RegexExtract(section, text)
    /\ pc = "returned" /\ TryModel(section, llm) # Raised =>
          /\ calls = <<<<"invoke", text>>>>
          /\ out = TryModel(section, llm)

\* a failed invocation was followed by one run of the pattern strategy on a
\* text with matches, and its result returned
ChainInvokedOnceWitness ==
    /\ pc = "returned"
    /\ llm = Raised
    /\ text = "Sort code: 12 34 56"
    /\ section = "nominated_bank_account"
    /\ calls = <<<<"invoke", text>>, <<"fallback", section, text>>>>
    /\ out = RegexExtract(section, text)

\* C23 as stated: the chain is invoked at most once; after a failed
\* invocation the pattern strategy is run exactly once and its result
\* returned; after a successful invocation the pattern strategy is not run.
FallbackOnlyAfterFailedInvocation ==
    /\ Logged(calls, "invoke") <= 1
    /\ pc = "returned" /\ llm = Raised =>
          /\ calls = <<<<"invoke", text>>, <<"fallback", section, text>>>>
          /\ out = RegexExtract(section, text)
    /\ llm # Raised => Logged(calls, "fallback") = 0

\* the patterns configured for a field of a section
PatternsOf(sec, field) ==
    SectionPatterns(sec)[CHOOSE i \in 1..Len(SectionPatterns(sec)) :
                             SectionPatterns(sec)[i][1] = field][2]

\* a boolean-flag field: all its patterns use group index 0, or it is one
\* of the three named flags
BooleanFlagField(sec, field) ==
    \/ field \in {"proof_of_registration_attached", "deceased", "born_in_uk"}
    \/ \A i \in 1..Len(PatternsOf(sec, field)) : PatternsOf(sec, field)[i].group = 0

\* C24: when none of a field's patterns matches, RegexExtractor.extract
\* sets the field to false if it is a boolean-flag field, to null if it is
\* a nested-object placeholder, and to the empty string otherwise.
UnmatchedFieldDefaults ==
    pc = "regex" =>
        With(Lower(text), LAMBDA low :
            \A field \in ConfiguredFields(section) :
                FirstMatch(text, low, PatternsOf(section, field)) = <<>> =>
                    out[2][field] =
                        IF BooleanFlagField(section, field) THEN PyFalse
                        ELSE IF field \in {"not_born_in_uk", "not_uk_details", "security_questions"}
                        THEN None
                        ELSE PyStr(""))

\* C25: for each field the patterns are tried in declared order and only
\* the first that matches is used: the field holds true when that pattern
\* has group index 0 and its capture group, stripped, when the index is
\* positive, whatever the later patterns match.
FirstMatchingPatternUsed ==
    pc = "regex" =>
        With(Lower(text), LAMBDA low :
            \A field \in ConfiguredFields(section) :
                With(PatternsOf(section, field), LAMBDA pats :
                    With({i \in 1..Len(pats) : Search(text, low, pats[i]) # <<>>}, LAMBDA hits :
                        hits # {} =>
                            out[2][field] =
                                IF pats[Min(hits)].group = 0 THEN PyTrue
                                ELSE PyStr(Strip(Search(text, low, pats[Min(hits)])[2])))))

\* the first and the third URN pattern match different groups, the first is used
FirstMatchingPatternUsedWitness ==
    /\ pc = "regex"
    /\ section = "trust_registration"
    /\ text = "Reference: R9 URN: A1"
    /\ With(PatternsOf(section, "HMRC_unique_reference_number"), LAMBDA pats :
          /\ Search(text, Lower(text), pats[1]) = <<"match", "A1">>
          /\ Search(text, Lower(text), pats[3]) = <<"match", "R9">>)
    /\ out[2]["HMRC_unique_reference_number"] = PyStr("A1")

\* C26: every normalization transform is idempotent: applied a second time
\* to its own output it changes nothing, for every input dictionary,
\* including an address that ends with the postcode twice.
TransformsIdempotent == pc = "twice" => out = raw

\* C27: after conditional-substructure promotion the nested key is never an
\* empty object: with the flag false or absent and no dependent field at
\* the top level the key is null unless the raw extraction held a non-empty
\* object at the key, also when it held {} there.
NestedNeverEmptyObject ==
    Returned /\ Conditional =>
        /\ Nested # PyDict(EmptyMap)
        /\ ~FlagTrue /\ RawDependents = {} /\ ~(IsDict(RawNested) /\ Truthy(RawNested))
              => Nested = None

\* C28: the date of a trustee-signature group is normalized by the rule of
\* a top-level date_of_birth: for every date string the value inside the
\* signature entry equals what _clean_date_of_birth produces for it.
SignatureDateAsDateOfBirth ==
    Normalized /\ section = "data_privacy_statement" /\ Has(raw[2], "trustee1_date") =>
        With(CleanDateOfBirth(PyDict([date_of_birth |-> raw[2]["trustee1_date"]])), LAMBDA dob :
            /\ dob # Raised
            /\ out[2]["trustee_signatures"][2][1][2]["date"] = dob[2]["date_of_birth"])

\* the strings of q joined by single spaces
RECURSIVE SpaceJoined(_)
SpaceJoined(q) ==
    IF q = <<>> THEN ""
    ELSE IF Len(q) = 1 THEN q[1]
    ELSE q[1] \o " " \o SpaceJoined(Tail(q))

\* the text of the pages of the document that match a section, in page order
OwnText(s) == SpaceJoined(SelectSeq(extracted_text, LAMBDA t : PageMatches(t, s)))

\* the entities the extractor of a section returns for a text, one for
\* each answer of the model
Entities(s, t) ==
    {ExtractorExtract(s, t, r, o)[1] : <<r, o>> \in
        UNION {{<<r, o>> : o \in KeyOrders(s, r)} : r \in DocResponses(s)}}

\* C29: sections are processed independently: the entity stored for a
\* section is what its extractor returns for the space-joined text of the
\* section's own matched pages in page order, whatever the other pages, the
\* other selected sections and the order of processing; and processing a
\* section leaves the entities stored before it as they are.
SectionsIndependent ==
    /\ [](\A s \in DOMAIN results : results[s] \in Entities(s, OwnText(s)))
    /\ [][\A s \in DOMAIN results : s \in DOMAIN results' /\ results'[s] = results[s]]_vars

\* two sections were stored, each from its own page, and the entity of the
\* trustee has no date of birth although the donor page holds one
SectionsIndependentWitness ==
    /\ run = "returned"
    /\ extracted_text = <<"Donor Details Date of birth: 01-02-99",
                          "Trustee Details of the Bare Trust URN: A1">>
    /\ {"donor_details", "trustee_details"} \subseteq DOMAIN results
    /\ identified_sections["donor_details"] = <<0>>
    /\ identified_sections["trustee_details"] = <<1>>
    /\ results["donor_details"][2]["date_of_birth"] = PyStr("01/02/1999")
    /\ results["trustee_details"][2]["date_of_birth"] = PyStr("")

\* C30: every normalized security-information entity has the key
\* security_questions, holding a populated object or null, and the
\* dependent fields mother_maiden_name and first_school_name are never
\* top-level keys, whether the raw extraction has neither the flat fields
\* nor the nested object, or has both.
SecurityQuestionsNested ==
    Returned /\ section = "security_information" =>
        /\ Has(out[2], "security_questions")
        /\ \/ out[2]["security_questions"] = None
           \/ /\ IsDict(out[2]["security_questions"])
              /\ DOMAIN out[2]["security_questions"][2] # {}
        /\ DOMAIN out[2] \cap {"mother_maiden_name", "first_school_name"} = {}
====
